---- MODULE Spec2Model ----
(***************************************************************************)
(* Model of the actions-runner-controller scaling engine:                  *)
(*   - RunnerReplicaSetReconciler.Reconcile (controllers package): one     *)
(*     pass is split at its external calls (Get/List, each IsRunnerBusy    *)
(*     probe, each Delete, each Create, the status Update) so that the job *)
(*     source and the clock can move between them;                         *)
(*   - Client.IsRunnerBusy, Client.GetRegistrationToken and Client.cleanup *)
(*     (github package);                                                   *)
(*   - Listener.Run, the builder's steps, createRunnerScaleSet,            *)
(*     createRunnerScaleSetSession, messageLoop.runAndNotify, getMessage   *)
(*     and deleteMessage (scalesetlistener package).                       *)
(* Time is counted in minutes.                                             *)
(***************************************************************************)
EXTENDS Integers, Sequences, FiniteSets, TLC

\* ------------------------------------------------------------------ bounds

\* Number of runner names the cluster can hold at once.
MaxRunners == 2

\* Last minute of the clock.
MaxTime == 1

\* The scale-down delay the autoscaler is configured with, in minutes.
ScaleDownDelay == 1

\* Number of messages the job source puts on the queue.
MaxMessages == 2

\* Number of times the session's queue token lapses.
MaxExpiries == 1

\* Number of cleanup goroutines that can be waiting for the mutex.
MaxCleanups == 1

\* How many goroutines call GetRegistrationToken at the same time.
MaxCallers == 2

\* ------------------------------------------------------- program constants

\* registrationTimeout := 15 * time.Minute
RegistrationTimeout == 15

\* retryDelayOnGitHubAPIRateLimitError, kept symbolic: Reconcile only copies it
\* into the result it returns.
RetryDelayOnGitHubAPIRateLimitError == "retryDelayOnGitHubAPIRateLimitError"

\* The zero value of ctrl.Result.RequeueAfter.
NoRequeue == "0s"

\* rs.Spec.Replicas == nil
NoReplicas == 0 - 1

Names == 1 .. MaxRunners

\* The name of a runner in the namespace that another replica set controls.
OtherRunner == MaxRunners + 1

AllNames == Names \cup {OtherRunner}

\* ------------------------------------------------------------------- state

VARIABLES
    now,          \* time.Now(), in minutes
    runners,      \* the Runner resources of the cluster, by name
    ghRunners,    \* the runners as the GitHub API lists them, by name
    specReplicas, \* rs.Spec.Replicas (NoReplicas when nil)
    rsStatus,     \* rs.Status.AvailableReplicas / ReadyReplicas
    rc,           \* the locals of the Reconcile pass in progress
    result,       \* what the last finished Reconcile pass returned
    pass,         \* what the pass in progress has done so far (observation only)
    apiFaults,    \* whether calls to the GitHub and cluster APIs can fail
    hra,          \* the autoscaler's status: LastSuccessfulScaleOutTime, and the
                  \* demand drops it has held back (observation only)
    ml,           \* the locals of messageLoop.runAndNotify
    b,            \* the builder the loop shares with Listener.Run (ml.b)
    srv,          \* the job source: message queue, session token, cancellation
    mlHist,       \* what the loop has called and dispatched (observation only)
    run,          \* the position of Listener.Run, the locals of
                  \* createRunnerScaleSetSession, and the calls setup and
                  \* teardown have made (observation only)
    rsMeta,       \* whether the replica set exists, and its DeletionTimestamp
    tok,          \* Client.regTokens, the cleanup goroutines not yet run, and
                  \* the last GetRegistrationToken call (observation only)
    cfg,          \* Listener.ghConfig and what Listener.Validate returned for it
    notify,       \* the channel Listener.Run hands to runAndNotify (l.message)
    conc          \* concurrent GetRegistrationToken calls for one key: c.mu, the
                  \* position and result of each caller and of the cleanup each
                  \* has started, c.regTokens[key], and the API calls made

rsVars == <<now, runners, ghRunners, specReplicas, rsStatus, rc, result, pass, apiFaults,
           rsMeta>>

mlVars == <<ml, b, srv, mlHist>>

auxVars == <<cfg, conc, notify>>

vars == <<now, runners, ghRunners, specReplicas, rsStatus, rc, result, pass, apiFaults, hra,
          ml, b, srv, mlHist, run, rsMeta, tok, cfg, conc, notify>>

\* ----------------------------------------------------------------- helpers

\* The ascending sequence of the members of a set of names.
RECURSIVE SortedSeq(_)
SortedSeq(S) ==
    IF S = {} THEN <<>>
    ELSE LET m == CHOOSE x \in S : \A y \in S : x <= y
         IN  <<m>> \o SortedSeq(S \ {m})

Range(s) == {s[k] : k \in 1 .. Len(s)}

NoRunner == [present |-> FALSE, created |-> 0, phase |-> ""]

Unlisted == [listed |-> FALSE, status |-> "", busy |-> FALSE]

GhStates ==
    {Unlisted} \cup
    [listed : {TRUE}, status : {"online", "offline"}, busy : BOOLEAN]

\* ------------------------------------------------- github.Client.IsRunnerBusy

\* A variant of IsRunnerBusy without the test for the status "offline".
IsRunnerBusyIgnoresStatus(gh, name, listErr) ==
    IF listErr # "nil" THEN [busy |-> FALSE, err |-> listErr]
    ELSE IF gh[name].listed
         THEN [busy |-> gh[name].busy, err |-> "nil"]
         ELSE [busy |-> FALSE, err |-> "RunnerNotFound"]

\* listErr is what ListRunners returned: "nil" or an error.
IsRunnerBusy(gh, name, listErr) ==
    IF listErr # "nil" THEN [busy |-> FALSE, err |-> listErr]
    ELSE IF gh[name].listed
         THEN IF gh[name].status = "offline"
              THEN [busy |-> gh[name].busy, err |-> "RunnerOffline"]
              ELSE [busy |-> gh[name].busy, err |-> "nil"]
         ELSE [busy |-> FALSE, err |-> "RunnerNotFound"]

\* What ListRunners can return.
ListErrs == IF apiFaults THEN {"nil", "RateLimitError", "OtherError"} ELSE {"nil"}

\* ------------------------------------------ github.Client.GetRegistrationToken

\* runnerStartupTimeout := 30 * time.Minute
RunnerStartupTimeout == 30

\* The arguments GetRegistrationToken is called with; repo is the repository
\* name split at "/" (<<>> for the empty string).
TokenArgs ==
    {[enterprise |-> "", org |-> "org", repo |-> <<>>],
     [enterprise |-> "", org |-> "", repo |-> <<"org", "repo">>],
     [enterprise |-> "", org |-> "", repo |-> <<"repo">>],
     [enterprise |-> "", org |-> "", repo |-> <<>>]}

\* getRegistrationKey(org, repo, enterprise): the three strings, formatted
\* into one.
GetRegistrationKey(org, repo, enterprise) ==
    <<"org=", org, ",repo=", repo, ",enterprise=", enterprise>>

\* The error of getEnterpriseOrganizationAndRepo: a repository name that does
\* not split into owner and name, or three empty strings.
GetEnterpriseOrganizationAndRepoErr(enterprise, org, repo) ==
    IF Len(repo) > 0
    THEN IF Len(repo) # 2 THEN "invalid repository name" ELSE "nil"
    ELSE IF org # "" THEN "nil"
    ELSE IF enterprise # "" THEN "nil"
    ELSE "enterprise, organization and repository are all empty"

\* A variant of ServedFromCache that also serves a token that expires exactly
\* runnerStartupTimeout from now.
ServedFromCacheInclusive(ok, expiresAt, currentTime) ==
    ok /\ expiresAt >= currentTime + RunnerStartupTimeout

\* ok && rt.GetExpiresAt().After(time.Now().Add(runnerStartupTimeout))
ServedFromCache(ok, expiresAt, currentTime) ==
    ok /\ expiresAt > currentTime + RunnerStartupTimeout

\* A variant of CleanupRemoves that also takes a token expiring this very minute.
CleanupRemovesInclusive(expiresAt, currentTime) == expiresAt <= currentTime

\* rt.GetExpiresAt().Before(time.Now())
CleanupRemoves(expiresAt, currentTime) == expiresAt < currentTime

\* How long the tokens the GitHub API hands out last, in minutes.
TokenLifetimes == {0, RunnerStartupTimeout, RunnerStartupTimeout + 1}

\* What createRegistrationToken returns: an error, a status that is not 201, or
\* a token of some lifetime.
CreateTokenOutcomes ==
    {[err |-> "CreateRegistrationTokenError", status |-> 0, lifetime |-> 0],
     [err |-> "nil", status |-> 500, lifetime |-> 0]}
    \cup [err : {"nil"}, status : {201}, lifetime : TokenLifetimes]

NoToken == [ok |-> FALSE, expiresAt |-> 0]

NoTokenCall ==
    [key |-> <<>>, args |-> [enterprise |-> "", org |-> "", repo |-> <<>>],
     served |-> "none", ok |-> FALSE, cachedExpiresAt |-> 0, at |-> 0,
     apiCalls |-> 0, status |-> 0, err |-> "nil", token |-> NoToken]

AllTokenKeys == {GetRegistrationKey(a.org, a.repo, a.enterprise) : a \in TokenArgs}

NoTokens ==
    [regTokens |-> [k \in AllTokenKeys |-> NoToken], cleanups |-> 0, last |-> NoTokenCall,
     removed |-> {}]

\* A variant of CreateFailed without the test of the response status.
CreateFailedIgnoresStatus(out) == out.err # "nil"

\* The two tests after createRegistrationToken: err != nil, res.StatusCode != 201.
CreateFailed(out) == out.err # "nil" \/ out.status # 201

\* One call of GetRegistrationToken, under c.mu.
GetRegistrationToken ==
    /\ \E args \in TokenArgs :
         LET key    == GetRegistrationKey(args.org, args.repo, args.enterprise)
             rt     == tok.regTokens[key]
             call   == [NoTokenCall EXCEPT !.key = key, !.args = args, !.ok = rt.ok,
                                           !.cachedExpiresAt = rt.expiresAt, !.at = now]
             argErr == GetEnterpriseOrganizationAndRepoErr(args.enterprise, args.org, args.repo)
         IN  IF ServedFromCache(rt.ok, rt.expiresAt, now)
             THEN tok' = [tok EXCEPT !.last = [call EXCEPT !.served = "cache", !.token = rt]]
             ELSE IF argErr # "nil"
             THEN tok' = [tok EXCEPT !.last = [call EXCEPT !.served = "error",
                                                           !.err = argErr, !.token = rt]]
             ELSE \E out \in CreateTokenOutcomes :
                    IF CreateFailed(out)
                    THEN tok' = [tok EXCEPT
                                   !.last = [call EXCEPT
                                               !.served = "error", !.apiCalls = 1,
                                               !.status = out.status,
                                               !.err = IF out.err # "nil"
                                                       THEN "failed to create registration token"
                                                       ELSE "unexpected status"]]
                    ELSE LET new == [ok |-> TRUE, expiresAt |-> now + out.lifetime]
                         IN  tok' = [tok EXCEPT
                                       !.regTokens[key] = new,
                                       !.cleanups = IF @ < MaxCleanups THEN @ + 1 ELSE @,
                                       !.last = [call EXCEPT !.served = "api",
                                                             !.apiCalls = 1,
                                                             !.status = out.status,
                                                             !.token = new]]
    /\ UNCHANGED <<rsVars, hra, mlVars, run, auxVars>>

\* One run of the goroutine "go func() { c.cleanup() }()", under c.mu.
Cleanup ==
    /\ tok.cleanups > 0
    /\ tok' = [tok EXCEPT
                 !.cleanups = @ - 1,
                 !.removed = {k \in AllTokenKeys :
                                /\ tok.regTokens[k].ok
                                /\ CleanupRemoves(tok.regTokens[k].expiresAt, now)},
                 !.regTokens = [k \in AllTokenKeys |->
                                  IF tok.regTokens[k].ok
                                     /\ CleanupRemoves(tok.regTokens[k].expiresAt, now)
                                  THEN NoToken ELSE tok.regTokens[k]]]
    /\ UNCHANGED <<rsVars, hra, mlVars, run, auxVars>>

\* ------------------------- concurrent GetRegistrationToken calls and c.mu

Callers == 1 .. MaxCallers

NoHolder == 0

\* The goroutine "go func() { c.cleanup() }()" that caller p starts.
CleanupOf(p) == 0 - p

\* A variant of CanLock for a mutex that lets everyone in.
CanLockAlways(holder) == TRUE

\* c.mu.Lock() returns only when no goroutine holds the mutex.
CanLock(holder) == holder = NoHolder

\* No caller has entered GetRegistrationToken yet; the cache is empty.
NoCallers ==
    [mu |-> NoHolder, pc |-> [p \in Callers |-> "lock"],
     cleanup |-> [p \in Callers |-> "none"], regToken |-> NoToken,
     got |-> [p \in Callers |-> NoToken], err |-> [p \in Callers |-> "nil"],
     apiCalls |-> 0, created |-> {}]

\* c.mu.Lock() at the top of GetRegistrationToken.
CallerLocks ==
    /\ \E p \in Callers :
         /\ conc.pc[p] = "lock"
         /\ CanLock(conc.mu)
         /\ conc' = [conc EXCEPT !.mu = p, !.pc[p] = "lookup"]
    /\ UNCHANGED <<rsVars, hra, mlVars, run, tok, cfg, notify>>

\* rt, ok := c.regTokens[key] and the test of the cached token.
CallerLooksUp ==
    /\ \E p \in Callers :
         /\ conc.pc[p] = "lookup"
         /\ conc' = IF ServedFromCache(conc.regToken.ok, conc.regToken.expiresAt, now)
                    THEN [conc EXCEPT !.got[p] = conc.regToken, !.pc[p] = "unlock"]
                    ELSE [conc EXCEPT !.pc[p] = "create"]
    /\ UNCHANGED <<rsVars, hra, mlVars, run, tok, cfg, notify>>

\* c.createRegistrationToken, and on success the write of the map and the
\* start of the cleanup goroutine.
CallerCreates ==
    /\ \E p \in Callers :
         /\ conc.pc[p] = "create"
         /\ \E out \in CreateTokenOutcomes :
              IF CreateFailed(out)
              THEN conc' = [conc EXCEPT !.apiCalls = @ + 1, !.pc[p] = "unlock",
                                        !.err[p] = IF out.err # "nil"
                                                   THEN "failed to create registration token"
                                                   ELSE "unexpected status"]
              ELSE LET new == [ok |-> TRUE, expiresAt |-> now + out.lifetime]
                   IN  conc' = [conc EXCEPT !.apiCalls = @ + 1, !.regToken = new,
                                            !.created = @ \cup {new},
                                            !.cleanup[p] = "lock",
                                            !.got[p] = new, !.pc[p] = "unlock"]
    /\ UNCHANGED <<rsVars, hra, mlVars, run, tok, cfg, notify>>

\* The deferred c.mu.Unlock() of GetRegistrationToken.
CallerUnlocks ==
    /\ \E p \in Callers :
         /\ conc.pc[p] = "unlock"
         /\ conc' = [conc EXCEPT !.mu = NoHolder, !.pc[p] = "done"]
    /\ UNCHANGED <<rsVars, hra, mlVars, run, tok, cfg, notify>>

\* c.mu.Lock() at the top of cleanup.
CleanupLocks ==
    /\ \E p \in Callers :
         /\ conc.cleanup[p] = "lock"
         /\ CanLock(conc.mu)
         /\ conc' = [conc EXCEPT !.mu = CleanupOf(p), !.cleanup[p] = "run"]
    /\ UNCHANGED <<rsVars, hra, mlVars, run, tok, cfg, notify>>

\* The loop of cleanup over the map, and its deferred c.mu.Unlock().
CleanupRuns ==
    /\ \E p \in Callers :
         /\ conc.cleanup[p] = "run"
         /\ conc' = [conc EXCEPT
                       !.mu = NoHolder, !.cleanup[p] = "done",
                       !.regToken = IF @.ok /\ CleanupRemoves(@.expiresAt, now)
                                    THEN NoToken ELSE @]
    /\ UNCHANGED <<rsVars, hra, mlVars, run, tok, cfg, notify>>

\* ------------------------------------ RunnerReplicaSetReconciler.Reconcile

\* A variant of RegistrationDidTimeout that counts the timeout's last minute
\* as timed out.
RegistrationDidTimeoutInclusive(currentTime, created) ==
    currentTime - (created + RegistrationTimeout) >= 0

\* registrationDidTimeout := currentTime.Sub(runner.CreationTimestamp.Add(registrationTimeout)) > 0
RegistrationDidTimeout(currentTime, created) ==
    currentTime - (created + RegistrationTimeout) > 0

\* Whether the probed runner is appended to notBusy (probe.err is none of the
\* two errors that end the pass).
AppendsToNotBusy(probe, currentTime, created) ==
    IF probe.err # "nil"
    THEN \/ probe.err = "RunnerNotFound" /\ RegistrationDidTimeout(currentTime, created)
         \/ probe.err = "RunnerOffline"
    ELSE ~probe.busy

\* A variant of ProbeErrorEndsPass in which the rate-limit branch does not
\* return.
ProbeErrorEndsPassOnlyOther(err) == err = "OtherError"

\* Whether a probe error ends the pass: it is neither RunnerNotFound nor
\* RunnerOffline (the rate-limit error and every other error return).
ProbeErrorEndsPass(err) ==
    err \notin {"nil", "RunnerNotFound", "RunnerOffline"}

\* A variant of ProbeErrorResult that asks for the delayed requeue on every
\* error.
ProbeErrorResultAlwaysRequeue(err) ==
    [requeueAfter |-> RetryDelayOnGitHubAPIRateLimitError, err |-> err]

\* The result returned on a probe error that ends the pass.
ProbeErrorResult(err) ==
    IF err = "RateLimitError"
    THEN [requeueAfter |-> RetryDelayOnGitHubAPIRateLimitError, err |-> err]
    ELSE [requeueAfter |-> NoRequeue, err |-> err]

OkResult == [requeueAfter |-> NoRequeue, err |-> "nil"]

\* A variant of Desired that takes 1 whatever spec.Replicas says.
DesiredIgnoresReplicas(replicas) == 1

\* desired: *rs.Spec.Replicas, or 1 when it is nil.
Desired(replicas) == IF replicas # NoReplicas THEN replicas ELSE 1

\* A variant of ScaleUpCount that is one short.
ScaleUpCountOneShort(available, desired) == desired - available - 1

\* n := desired - available
ScaleUpCount(available, desired) == desired - available

\* The replica set Reconcile is called for.
ReplicaSet == [name |-> "rs", namespace |-> "ns", template |-> "template"]

\* r.newRunner(rs): the template's metadata with the replica set's name as
\* GenerateName prefix and its namespace, the template's spec, and the
\* controller reference to the replica set.
NewRunner(rs) ==
    [generateName |-> <<rs.name, "-">>, namespace |-> rs.namespace,
     spec |-> rs.template, controller |-> rs.name]

\* A variant of ScaleDownCount that is one too many.
ScaleDownCountOffByOne(available, desired) == available - desired + 1

\* n := available - desired
ScaleDownCount(available, desired) == available - desired

\* A variant of ClampToNotBusy that sets n to len(notBusy) unconditionally.
ClampToNotBusyAlways(n, notBusy) == Len(notBusy)

\* if len(notBusy) < n { n = len(notBusy) }
ClampToNotBusy(n, notBusy) == IF Len(notBusy) < n THEN Len(notBusy) ELSE n

\* The runner the i-th delete call (i counted from 0) is made on: notBusy[i].
DeleteTarget(notBusy, i) == notBusy[i + 1]

\* The runner the RunnerDeleted event names: myRunners[i].Name
EventRunner(myRunners, i) == myRunners[i + 1]

IdleRc ==
    [pc |-> "idle", myRunners |-> <<>>, available |-> 0, ready |-> 0,
     desired |-> 0, n |-> 0, idx |-> 0, notBusy |-> <<>>, i |-> 0]

NoPass ==
    [probes |-> <<>>, notBusy |-> <<>>, deleted |-> <<>>, deletedBusy |-> {},
     created |-> 0, newRunners |-> <<>>, statusWrites |-> 0, events |-> <<>>,
     branch |-> "none", ended |-> "none", heldAtBegin |-> FALSE,
     available |-> 0, desired |-> 0]

\* A replica set that exists and is not being deleted.
LiveReplicaSet == [found |-> TRUE, deletionTimestamp |-> FALSE]

GetErrs == IF apiFaults THEN {"nil", "GetError"} ELSE {"nil"}

\* What r.Get returns for the replica set.
GetReplicaSet(meta, getErr) ==
    IF getErr # "nil" THEN getErr ELSE IF ~meta.found THEN "NotFound" ELSE "nil"

\* client.IgnoreNotFound
IgnoreNotFound(err) == IF err = "NotFound" THEN "nil" ELSE err

\* A variant of EarlyReturn without the test of the DeletionTimestamp.
EarlyReturnIgnoresDeletion(meta, getErr, listErr) ==
    IF GetReplicaSet(meta, getErr) # "nil" THEN "get"
    ELSE IF listErr # "nil" THEN "list"
    ELSE "none"

\* The early returns of Reconcile, "none" when the pass goes on: a failed Get,
\* a DeletionTimestamp, a failed List.
EarlyReturn(meta, getErr, listErr) ==
    IF GetReplicaSet(meta, getErr) # "nil" THEN "get"
    ELSE IF meta.deletionTimestamp THEN "deleting"
    ELSE IF listErr # "nil" THEN "list"
    ELSE "none"

\* A variant of IsControlledBy that takes every runner of the namespace.
IsControlledByAnyone(name, rs) == TRUE

\* metav1.IsControlledBy(&r, &rs): the runners named in Names carry the owner
\* reference newRunner sets, OtherRunner that of another replica set.
IsControlledBy(name, rs) == (IF name \in Names THEN "rs" ELSE "other") = rs.name

RECURSIVE MyRunners(_, _)
\* The loop over allRunners.Items that appends to myRunners.
MyRunners(allRunners, rs) ==
    IF allRunners = <<>> THEN <<>>
    ELSE (IF IsControlledBy(Head(allRunners), rs) THEN <<Head(allRunners)>> ELSE <<>>)
         \o MyRunners(Tail(allRunners), rs)

ClusterListErrs == IF apiFaults THEN {"nil", "ListError"} ELSE {"nil"}

\* The pass that returns before it counts: Get failed or found nothing, the
\* replica set is being deleted, or List failed.
ReconcileReturnsEarly ==
    /\ rc.pc = "idle"
    /\ \E getErr \in GetErrs, listErr \in ClusterListErrs :
         LET early == EarlyReturn(rsMeta, getErr, listErr)
             err   == IF early = "get" THEN IgnoreNotFound(GetReplicaSet(rsMeta, getErr))
                      ELSE IF early = "list" THEN listErr
                      ELSE "nil"
         IN  /\ early # "none"
             /\ result' = [requeueAfter |-> NoRequeue, err |-> err]
             /\ pass' = [NoPass EXCEPT !.branch = early,
                                       !.ended = IF err = "nil" THEN "returned" ELSE err]
    /\ UNCHANGED <<now, runners, ghRunners, specReplicas, rsStatus, rc, apiFaults, rsMeta, hra, mlVars, run, tok, auxVars>>

\* A variant of Branch that goes into the scale-down branch without a surplus.
BranchScaleDownWithoutSurplus(available, desired) ==
    IF available >= desired THEN "probe"
    ELSE "create"

\* if available > desired { ... } else if desired > available { ... }
Branch(available, desired) ==
    IF available > desired THEN "probe"
    ELSE IF desired > available THEN "create"
    ELSE "status"

\* Get the replica set, List the runners, count them and pick the branch.
ReconcileBegin ==
    /\ rc.pc = "idle"
    /\ EarlyReturn(rsMeta, "nil", "nil") = "none"
    /\ LET allRunners == SortedSeq({r \in AllNames : runners[r].present})
           mine      == MyRunners(allRunners, ReplicaSet)
           available == Len(mine)
           ready     == Cardinality({r \in Range(mine) : runners[r].phase = "Running"})
           desired   == Desired(specReplicas)
           branch    == Branch(available, desired)
       IN  /\ rc' = [pc |-> branch, myRunners |-> mine, available |-> available,
                     ready |-> ready, desired |-> desired,
                     n |-> IF branch = "probe" THEN ScaleDownCount(available, desired)
                           ELSE IF branch = "create" THEN ScaleUpCount(available, desired)
                           ELSE 0,
                     idx |-> 1, notBusy |-> <<>>, i |-> 0]
           /\ pass' = [NoPass EXCEPT !.branch = branch, !.heldAtBegin = hra.dropHeld,
                                     !.available = available, !.desired = desired]
    /\ UNCHANGED <<now, runners, ghRunners, specReplicas, rsStatus, result, apiFaults, rsMeta, hra, mlVars, run, tok, auxVars>>

\* One iteration of "for _, runner := range myRunners": one IsRunnerBusy call.
ReconcileProbe ==
    /\ rc.pc = "probe"
    /\ rc.idx <= Len(rc.myRunners)
    /\ \E listErr \in ListErrs :
         LET name  == rc.myRunners[rc.idx]
             probe == IsRunnerBusy(ghRunners, name, listErr)
             age   == now - runners[name].created
             entry == [name |-> name, busy |-> probe.busy, err |-> probe.err, age |-> age]
             hard  == ProbeErrorEndsPass(probe.err)
             nb    == IF AppendsToNotBusy(probe, now, runners[name].created)
                      THEN Append(rc.notBusy, name) ELSE rc.notBusy
             last  == rc.idx = Len(rc.myRunners)
         IN  IF hard
             THEN /\ rc' = IdleRc
                  /\ result' = ProbeErrorResult(probe.err)
                  /\ pass' = [pass EXCEPT !.probes = Append(@, entry),
                                          !.ended = probe.err]
             ELSE /\ rc' = [rc EXCEPT !.idx = @ + 1,
                                      !.notBusy = nb,
                                      !.n = IF last THEN ClampToNotBusy(rc.n, nb) ELSE @,
                                      !.pc = IF last THEN "delete" ELSE "probe"]
                  /\ pass' = [pass EXCEPT !.probes = Append(@, entry), !.notBusy = nb]
                  /\ UNCHANGED result
    /\ UNCHANGED <<now, runners, ghRunners, specReplicas, rsStatus, apiFaults, rsMeta, hra, mlVars, run, tok, auxVars>>

DeleteErrs == IF apiFaults THEN {"nil", "DeleteError"} ELSE {"nil"}

\* One iteration of "for i := 0; i < n; i++": one Delete call and its event.
ReconcileDelete ==
    /\ rc.pc = "delete"
    /\ rc.i < rc.n
    /\ \E delErr \in DeleteErrs :
         LET target == DeleteTarget(rc.notBusy, rc.i)
         IN  IF delErr # "nil"
             THEN /\ rc' = IdleRc
                  /\ result' = [requeueAfter |-> NoRequeue, err |-> delErr]
                  /\ pass' = [pass EXCEPT !.ended = delErr]
                  /\ UNCHANGED <<runners, ghRunners>>
             ELSE /\ runners' = [runners EXCEPT ![target] = NoRunner]
                  /\ ghRunners' = [ghRunners EXCEPT ![target] = Unlisted]
                  /\ rc' = [rc EXCEPT !.i = @ + 1]
                  /\ pass' = [pass EXCEPT
                                !.deleted = Append(@, target),
                                !.deletedBusy =
                                    IF ghRunners[target].busy THEN @ \cup {target} ELSE @,
                                !.events = Append(@, EventRunner(rc.myRunners, rc.i))]
                  /\ UNCHANGED result
    /\ UNCHANGED <<now, specReplicas, rsStatus, apiFaults, rsMeta, hra, mlVars, run, tok, auxVars>>

CreateErrs == IF apiFaults THEN {"nil", "CreateError"} ELSE {"nil"}

\* One iteration of the scale-up loop: newRunner and one Create call.
ReconcileCreate ==
    /\ rc.pc = "create"
    /\ rc.i < rc.n
    /\ \E createErr \in CreateErrs :
         IF createErr # "nil"
         THEN /\ rc' = IdleRc
              /\ result' = [requeueAfter |-> NoRequeue, err |-> createErr]
              /\ pass' = [pass EXCEPT !.ended = createErr]
              /\ UNCHANGED <<runners, ghRunners>>
         ELSE /\ \E fresh \in {r \in Names : ~runners[r].present} :
                   /\ runners' = [runners EXCEPT ![fresh] =
                                    [present |-> TRUE, created |-> now, phase |-> ""]]
                   /\ ghRunners' = [ghRunners EXCEPT ![fresh] = Unlisted]
              /\ rc' = [rc EXCEPT !.i = @ + 1]
              /\ pass' = [pass EXCEPT !.created = @ + 1,
                                      !.newRunners = Append(@, NewRunner(ReplicaSet))]
              /\ UNCHANGED result
    /\ UNCHANGED <<now, specReplicas, rsStatus, apiFaults, rsMeta, hra, mlVars, run, tok, auxVars>>

\* A variant of StatusDiffers that asks for the update in every pass.
StatusDiffersAlways(status, available, ready) == TRUE

\* if rs.Status.AvailableReplicas != available || rs.Status.ReadyReplicas != ready
StatusDiffers(status, available, ready) ==
    status.available # available \/ status.ready # ready

UpdateErrs == IF apiFaults THEN {"nil", "UpdateError"} ELSE {"nil"}

\* The end of the pass: the status update when the counts differ, and the return.
ReconcileStatus ==
    /\ \/ rc.pc = "status"
       \/ rc.pc \in {"delete", "create"} /\ rc.i >= rc.n
    /\ IF StatusDiffers(rsStatus, rc.available, rc.ready)
       THEN \E updErr \in UpdateErrs :
              IF updErr # "nil"
              THEN /\ result' = [requeueAfter |-> NoRequeue, err |-> updErr]
                   /\ pass' = [pass EXCEPT !.ended = updErr]
                   /\ UNCHANGED rsStatus
              ELSE /\ rsStatus' = [available |-> rc.available, ready |-> rc.ready]
                   /\ result' = OkResult
                   /\ pass' = [pass EXCEPT !.statusWrites = @ + 1, !.ended = "ok"]
       ELSE /\ result' = OkResult
            /\ pass' = [pass EXCEPT !.ended = "ok"]
            /\ UNCHANGED rsStatus
    /\ rc' = IdleRc
    /\ UNCHANGED <<now, runners, ghRunners, specReplicas, apiFaults, rsMeta, hra, mlVars, run, tok, auxVars>>

\* ------------------------------------------------------------- environment

\* The replica set is deleted: first its DeletionTimestamp is set, then it is
\* gone.
ReplicaSetDeleted ==
    /\ rc.pc = "idle"
    /\ rsMeta.found
    /\ rsMeta' = IF rsMeta.deletionTimestamp
                 THEN [found |-> FALSE, deletionTimestamp |-> FALSE]
                 ELSE [found |-> TRUE, deletionTimestamp |-> TRUE]
    /\ UNCHANGED <<now, runners, ghRunners, specReplicas, rsStatus, rc, result, pass, apiFaults, hra, mlVars, run, tok, auxVars>>

\* The job source assigns a job to an online idle runner.
JobAssigned ==
    /\ \E r \in Names :
         /\ ghRunners[r].listed /\ ghRunners[r].status = "online" /\ ~ghRunners[r].busy
         /\ ghRunners' = [ghRunners EXCEPT ![r].busy = TRUE]
    /\ UNCHANGED <<now, runners, specReplicas, rsStatus, rc, result, pass, apiFaults, rsMeta, hra, mlVars, run, tok, auxVars>>

\* A created runner registers itself at GitHub.
RunnerRegisters ==
    /\ \E r \in Names :
         /\ runners[r].present /\ ~ghRunners[r].listed
         /\ ghRunners' = [ghRunners EXCEPT ![r] =
                            [listed |-> TRUE, status |-> "online", busy |-> FALSE]]
         /\ runners' = [runners EXCEPT ![r].phase = "Running"]
    /\ UNCHANGED <<now, specReplicas, rsStatus, rc, result, pass, apiFaults, rsMeta, hra, mlVars, run, tok, auxVars>>

Tick ==
    /\ now < MaxTime
    /\ now' = now + 1
    /\ UNCHANGED <<runners, ghRunners, specReplicas, rsStatus, rc, result, pass, apiFaults, rsMeta, hra, mlVars, run, tok, auxVars>>

\* --------------------------------------------------- HorizontalRunnerAutoscaler

NoTime == 0 - 1

NoHra == [lastScaleOut |-> NoTime, dropHeld |-> FALSE]

\* Whether a scale-down decision taken at currentTime is held back.
ScaleDownSuppressed(lastScaleOut, currentTime) ==
    lastScaleOut # NoTime /\ currentTime < lastScaleOut + ScaleDownDelay

\* The autoscaler computes a desired count d from the demand signals and writes
\* it to the replica set: a raise at once (and it notes the time), a cut only
\* when no scale-down delay is running.
HRAReconcile ==
    /\ \E d \in 0 .. MaxRunners :
         LET cur       == Desired(specReplicas)
             available == Cardinality({r \in Names : runners[r].present})
         IN  /\ d # cur
             /\ IF d > cur
                THEN /\ specReplicas' = d
                     /\ hra' = [lastScaleOut |-> now, dropHeld |-> FALSE]
                ELSE IF ScaleDownSuppressed(hra.lastScaleOut, now)
                     THEN /\ hra' = [hra EXCEPT !.dropHeld = @ \/ d < available]
                          /\ UNCHANGED specReplicas
                     ELSE /\ specReplicas' = d
                          /\ UNCHANGED hra
    /\ UNCHANGED <<now, runners, ghRunners, rsStatus, rc, result, pass, apiFaults, rsMeta, mlVars, run, tok, auxVars>>

\* ------------------------------------------------------------ the job source

MessageTypes ==
    {"RunnerScaleSetJobAvailable", "RunnerScaleSetJobAssigned",
     "RunnerScaleSetJobCompleted", "SomethingElse"}

NoMessage == [id |-> 0, type |-> "nil"]

\* The message GetMessage returns for a cursor: the pending message with the
\* lowest id above the cursor, or none.
NextMessageAfter(queue, cursor) ==
    LET after == {m \in queue : m.id > cursor}
    IN  IF after = {} THEN NoMessage
        ELSE CHOOSE m \in after : \A o \in after : m.id <= o.id

\* Whether the queue accepts the token a session carries.
TokenAccepted(server, session) ==
    ~server.expired /\ session.tokenGen = server.tokenGen

\* The job source puts the next message on the queue.
EnqueueMessage ==
    /\ srv.nextId <= MaxMessages
    /\ \E t \in MessageTypes :
         srv' = [srv EXCEPT !.queue = @ \cup {[id |-> srv.nextId, type |-> t]},
                            !.nextId = @ + 1]
    /\ UNCHANGED <<rsVars, hra, tok, auxVars, run, ml, b, mlHist>>

\* The queue token of the session lapses.
TokenExpires ==
    /\ srv.expiries < MaxExpiries
    /\ ~srv.expired
    /\ srv' = [srv EXCEPT !.expired = TRUE, !.expiries = @ + 1]
    /\ UNCHANGED <<rsVars, hra, tok, auxVars, run, ml, b, mlHist>>

\* The context passed to Listener.Run is cancelled.
Cancel ==
    /\ ~srv.cancelled
    /\ srv' = [srv EXCEPT !.cancelled = TRUE]
    /\ UNCHANGED <<rsVars, hra, tok, auxVars, run, ml, b, mlHist>>

\* ------------------------------------------------- messageLoop.runAndNotify

NilSession == [nil |-> TRUE, sessionId |-> 0, scaleSetId |-> 0, tokenGen |-> 0]

NilConn == 0 - 1

\* The zero value of RunnerScaleSetSession: no ids, no queue url, no token.
EmptySession == [nil |-> FALSE, sessionId |-> 0, scaleSetId |-> 0, tokenGen |-> 0 - 1]

\* What RefreshMessageSession hands back beside its error: the loop assigns it
\* to session before it looks at the error.
FailedRefreshSessions == {NilSession, EmptySession}

\* A variant of CtxDone that never sees the cancellation.
CtxDoneNever(server) == FALSE

\* select { case <-ctx.Done(): ... default: }
CtxDone(server) == server.cancelled

\* A variant of IsTokenExpired that takes every error for a lapsed token.
IsTokenExpiredAny(err) == TRUE

\* errors.As(err, &tokenExpiredErr)
IsTokenExpired(err) == err = "MessageQueueTokenExpiredError"

\* A variant of IsNilMessage that lets a nil message through.
IsNilMessageNever(message) == FALSE

\* if message == nil { continue }
IsNilMessage(message) == message = NoMessage

\* Where the loop goes after getMessage returned without error, or after a
\* refresh that succeeded: round again on a nil message, else on to the cursor
\* assignment and the switch.
AfterNilCheck(message) == IF IsNilMessage(message) THEN "top" ELSE "dispatch"

\* A variant of AdvanceCursor that stops one short of the message's id.
AdvanceCursorOneBehind(lastMessageId, message) == message.id - 1

\* A variant of AdvanceCursor that leaves the cursor where it is.
AdvanceCursorNever(lastMessageId, message) == lastMessageId

\* lastMessageId = message.MessageId
AdvanceCursor(lastMessageId, message) == message.id

\* A variant of HandlerFor without the case for completed jobs.
HandlerForWithoutCompletion(type) ==
    CASE type = "RunnerScaleSetJobAvailable" -> "MaybeAcquireJob"
      [] type = "RunnerScaleSetJobAssigned"  -> "HandleJobAssignment"
      [] OTHER                               -> "none"

\* The handler the switch on message.MessageType calls, "none" for the default
\* branch, which only logs.
HandlerFor(type) ==
    CASE type = "RunnerScaleSetJobAvailable" -> "MaybeAcquireJob"
      [] type = "RunnerScaleSetJobAssigned"  -> "HandleJobAssignment"
      [] type = "RunnerScaleSetJobCompleted" -> "NoopHandleJobCompletion"
      [] OTHER                               -> "none"

\* A variant of DefersDeleteMessage that never deletes.
DefersDeleteMessageNever(message) == FALSE

\* Whether getMessage gets past "if message == nil { return nil, nil }" to
\* "defer deleteMessage(...)".
DefersDeleteMessage(message) == message # NoMessage

\* What c.GetMessage answers: an error, or the message after the cursor.
GetMessageOutcomes(server, session, cursor) ==
    IF session = EmptySession
    THEN {[err |-> "GetMessageError", message |-> NoMessage]}
    ELSE IF ~TokenAccepted(server, session)
    THEN {[err |-> "MessageQueueTokenExpiredError", message |-> NoMessage]}
    ELSE {[err |-> "GetMessageError", message |-> NoMessage],
          [err |-> "nil", message |-> NextMessageAfter(server.queue, cursor)]}

PollOutcome(answer) ==
    IF answer.err # "nil" THEN answer.err
    ELSE IF answer.message = NoMessage THEN "empty" ELSE "message"

\* The top of the loop: the cancellation check, then getMessage up to its
\* c.GetMessage call and what the loop does with an error or a nil message.
MlPoll ==
    /\ ml.pc = "top"
    /\ IF CtxDone(srv)
       THEN /\ ml' = [ml EXCEPT !.pc = "stopped"]
            /\ UNCHANGED mlHist
       ELSE IF ml.session.nil
       THEN \* session.MessageQueueUrl on a nil session
            /\ ml' = [ml EXCEPT !.pc = "panicked"]
            /\ UNCHANGED mlHist
       ELSE \E answer \in GetMessageOutcomes(srv, ml.session, ml.lastMessageId) :
              /\ ml' = [ml EXCEPT
                          !.message = answer.message,
                          !.pc = IF answer.err # "nil"
                                 THEN IF IsTokenExpired(answer.err)
                                      THEN "refreshAdmin" ELSE "top"
                                 ELSE IF DefersDeleteMessage(answer.message)
                                      THEN "deleteMessage"
                                      ELSE AfterNilCheck(answer.message)]
              /\ mlHist' = [mlHist EXCEPT
                              !.lastPoll = [cursor |-> ml.lastMessageId,
                                            outcome |-> PollOutcome(answer),
                                            running |-> mlHist.running],
                              !.prevPoll = mlHist.lastPoll,
                              !.pollTick = 1 - @,
                              !.reads = IF PollOutcome(answer) = "message"
                                        THEN Append(@, answer.message.id) ELSE @]
    /\ UNCHANGED <<rsVars, hra, tok, auxVars, run, b, srv>>

DeleteMessageErrs == {"nil", "DeleteMessageError"}

\* The deferred deleteMessage of getMessage: one c.DeleteMessage call, whose
\* failure is logged.
MlDeleteMessage ==
    /\ ml.pc = "deleteMessage"
    /\ \E err \in DeleteMessageErrs :
         srv' = IF err = "nil"
                THEN [srv EXCEPT !.queue = @ \ {ml.message}]
                ELSE srv
    /\ ml' = [ml EXCEPT !.pc = AfterNilCheck(ml.message)]
    /\ mlHist' = [mlHist EXCEPT !.deleteCalls = Append(@, ml.message.id)]
    /\ UNCHANGED <<rsVars, hra, tok, auxVars, run, b>>

\* The session the handler is called with: MaybeAcquireJob gets ml.b.session,
\* the other handlers get none.
HandlerSession(handler, builder) ==
    IF handler = "MaybeAcquireJob" THEN builder.session ELSE NilSession

\* A nil channel: what New stores when it is given none.
NilChannel == [nil |-> TRUE, cap |-> 0, len |-> 0, closed |-> FALSE]

\* The channels Listener.Run can hand to runAndNotify: nil, unbuffered with no
\* receiver, buffered with room, buffered and full, closed.
Channels ==
    {NilChannel,
     [nil |-> FALSE, cap |-> 0, len |-> 0, closed |-> FALSE],
     [nil |-> FALSE, cap |-> 1, len |-> 0, closed |-> FALSE],
     [nil |-> FALSE, cap |-> 1, len |-> 1, closed |-> FALSE],
     [nil |-> FALSE, cap |-> 1, len |-> 0, closed |-> TRUE]}

\* A variant of NotifyAfterDispatch that sends on the channel when it has room.
NotifyAfterDispatchSends(ch) ==
    IF ~ch.nil /\ ~ch.closed /\ ch.len < ch.cap THEN [ch EXCEPT !.len = @ + 1] ELSE ch

\* The channel after a message is dispatched: runAndNotify has no statement
\* that names notify.
NotifyAfterDispatch(ch) == ch

\* The cursor assignment and the switch on the message type, up to the call of
\* the handler.
MlDispatch ==
    /\ ml.pc = "dispatch"
    /\ LET handler == HandlerFor(ml.message.type)
       IN  /\ ml' = [ml EXCEPT
                       !.lastMessageId = AdvanceCursor(ml.lastMessageId, ml.message),
                       !.pc = IF handler = "none" THEN "top" ELSE "handler"]
           /\ mlHist' = [mlHist EXCEPT
                           !.dispatched = Append(@, ml.message.id),
                           !.handled = IF handler = "none" THEN @
                                       ELSE Append(@, [id |-> ml.message.id,
                                                       handler |-> handler]),
                           !.running = IF handler = "none" THEN @ ELSE @ + 1,
                           !.dispatches =
                               Append(@, [id |-> ml.message.id,
                                          type |-> ml.message.type,
                                          handler |-> handler,
                                          cursor |-> AdvanceCursor(ml.lastMessageId,
                                                                   ml.message),
                                          session |-> HandlerSession(handler, b),
                                          loopSession |-> ml.session])]
    /\ notify' = NotifyAfterDispatch(notify)
    /\ UNCHANGED <<rsVars, hra, tok, cfg, conc, run, b, srv>>

\* The handler returns and the loop goes round.
MlHandlerReturn ==
    /\ ml.pc = "handler"
    /\ ml' = [ml EXCEPT !.pc = "top"]
    /\ mlHist' = [mlHist EXCEPT !.running = @ - 1]
    /\ UNCHANGED <<rsVars, hra, tok, auxVars, run, b, srv>>

AdminConnErrs == {"nil", "AdminConnectionError"}

\* ml.b.actionsAdminConnection, err = ghClient.GetActionsServiceAdminConnection(...)
\* and, when it succeeded, the copy of the admin token into the service client.
MlRefreshAdmin ==
    /\ ml.pc = "refreshAdmin"
    /\ \E err \in AdminConnErrs :
         IF err # "nil"
         THEN /\ b' = [b EXCEPT !.actionsAdminConnection = NilConn]
              /\ ml' = [ml EXCEPT !.pc = "top"]
              /\ UNCHANGED srv
         ELSE /\ srv' = [srv EXCEPT !.adminGen = @ + 1]
              /\ b' = [b EXCEPT !.actionsAdminConnection = srv.adminGen + 1,
                                !.serviceAdminToken = ml.actionsAdminConnection]
              /\ ml' = [ml EXCEPT !.pc = "refreshSession"]
    /\ mlHist' = [mlHist EXCEPT
                    !.refreshAfter = mlHist.lastPoll.outcome,
                    !.refreshCalls = @ \cup {[op |-> "GetActionsServiceAdminConnection",
                                              scaleSetId |-> 0, sessionId |-> 0]}]
    /\ UNCHANGED <<rsVars, hra, tok, auxVars, run>>

RefreshErrs == {"nil", "RefreshSessionError"}

\* A variant of RefreshSessionArgs that asks for a session of another scale set.
RefreshSessionArgsOtherScaleSet(session) ==
    [op |-> "RefreshMessageSession", scaleSetId |-> session.scaleSetId + 1,
     sessionId |-> session.sessionId]

\* RefreshMessageSession(ctx, session.RunnerScaleSet.Id, session.SessionId)
RefreshSessionArgs(session) ==
    [op |-> "RefreshMessageSession", scaleSetId |-> session.scaleSetId,
     sessionId |-> session.sessionId]

\* session, err = ml.b.actionsServiceClient.RefreshMessageSession(...): the
\* session of the same ids with a new queue token, or an error and no usable
\* session.
MlRefreshSession ==
    /\ ml.pc = "refreshSession"
    /\ \E err \in RefreshErrs :
         IF err # "nil"
         THEN /\ \E failed \in FailedRefreshSessions :
                   ml' = [ml EXCEPT !.session = failed, !.pc = "top"]
              /\ UNCHANGED srv
         ELSE /\ srv' = [srv EXCEPT !.tokenGen = @ + 1, !.expired = FALSE]
              /\ ml' = [ml EXCEPT !.session = [@ EXCEPT !.tokenGen = srv.tokenGen + 1],
                                  !.pc = AfterNilCheck(ml.message)]
    /\ mlHist' = [mlHist EXCEPT
                    !.refreshCalls = @ \cup {RefreshSessionArgs(ml.session)}]
    /\ UNCHANGED <<rsVars, hra, tok, auxVars, run, b>>

\* ---------------------------------------------- Listener.Run and the builder

\* retries := 3
Retries == 3

\* RunnerSetting of newRunnerScaleSet(name)
NewRunnerScaleSet == [ephemeral |-> TRUE, disableUpdate |-> TRUE]

\* The scale set as the job source holds it; exists is FALSE when there is none
\* of the name.
NoScaleSet == [exists |-> FALSE, ephemeral |-> FALSE, disableUpdate |-> FALSE]

PoolStates ==
    {NoScaleSet} \cup [exists : {TRUE}, ephemeral : BOOLEAN, disableUpdate : BOOLEAN]

\* The builder as Listener.Run constructs it: nothing built, no error.
NewBuilder ==
    [actionsAdminConnection |-> NilConn, serviceAdminToken |-> NilConn,
     runnerScaleSet |-> 0, session |-> NilSession, err |-> "nil"]

NotStarted ==
    [pc |-> "notStarted", lastMessageId |-> 0, session |-> NilSession,
     actionsAdminConnection |-> NilConn, message |-> NoMessage]

RunStart ==
    [pc |-> "createAdminConn", i |-> 0, retries |-> 0, hostName |-> "",
     err |-> "nil", deferred |-> FALSE, calls |-> <<>>, settings |-> <<>>,
     found |-> "unknown", priorPool |-> NoScaleSet, attempts |-> 0, sleeps |-> 0,
     reported |-> 0, failed |-> <<>>, created |-> NilSession,
     destroyCalls |-> <<>>]

\* b.createAdminConn(): one GetActionsServiceAdminConnection call.
RunCreateAdminConn ==
    /\ run.pc = "createAdminConn"
    /\ \E err \in AdminConnErrs :
         IF err # "nil"
         THEN /\ b' = [b EXCEPT
                         !.actionsAdminConnection = NilConn,
                         !.err = "Could not create an Actions Service admin connection"]
              /\ run' = [run EXCEPT
                           !.pc = "createServiceClient",
                           !.calls = Append(@, "GetActionsServiceAdminConnection"),
                           !.failed = Append(@, "createAdminConn")]
         ELSE /\ b' = [b EXCEPT !.actionsAdminConnection = srv.adminGen]
              /\ run' = [run EXCEPT
                           !.pc = "createServiceClient",
                           !.calls = Append(@, "GetActionsServiceAdminConnection")]
    /\ UNCHANGED <<rsVars, hra, tok, auxVars, ml, srv, mlHist>>

\* b.createServiceClient(): newActionsClient copies the admin token; no call.
RunCreateServiceClient ==
    /\ run.pc = "createServiceClient"
    /\ b' = IF b.err # "nil" THEN b
            ELSE [b EXCEPT !.serviceAdminToken = b.actionsAdminConnection]
    /\ run' = [run EXCEPT !.pc = "createRunnerScaleSet"]
    /\ UNCHANGED <<rsVars, hra, tok, auxVars, ml, srv, mlHist>>

LookupErrs == {"nil", "GetRunnerScaleSetError"}

ChangeErrs == {"nil", "ChangeRunnerScaleSetError"}

\* A variant of PoolCall that creates the scale set whether or not the lookup
\* found one.
PoolCallAlwaysCreate(found) == "CreateRunnerScaleSet"

\* The call createRunnerScaleSet makes once its lookup returned without error:
\* if runnerScaleSet != nil, ReplaceRunnerScaleSet, else CreateRunnerScaleSet.
PoolCall(found) ==
    IF found THEN "ReplaceRunnerScaleSet" ELSE "CreateRunnerScaleSet"

\* b.createRunnerScaleSet() and createRunnerScaleSet: the lookup by name, then
\* the replace or the create with newRunnerScaleSet(name).
RunCreateRunnerScaleSet ==
    /\ run.pc = "createRunnerScaleSet"
    /\ IF b.err # "nil"
       THEN /\ run' = [run EXCEPT !.pc = "createSession"]
            /\ UNCHANGED <<b, srv>>
       ELSE \E lookupErr \in LookupErrs, changeErr \in ChangeErrs :
              IF lookupErr # "nil"
              THEN /\ b' = [b EXCEPT !.runnerScaleSet = 0,
                                     !.err = "Can not found runner scale set"]
                   /\ run' = [run EXCEPT
                                !.pc = "createSession",
                                !.calls = Append(@, "GetRunnerScaleSet"),
                                !.found = "error",
                                !.priorPool = srv.pool,
                                !.failed = Append(@, "createRunnerScaleSet")]
                   /\ UNCHANGED srv
              ELSE LET call == PoolCall(srv.pool.exists)
                       log  == [run EXCEPT
                                  !.pc = "createSession",
                                  !.calls = @ \o <<"GetRunnerScaleSet", call>>,
                                  !.settings = Append(@, NewRunnerScaleSet),
                                  !.found = IF srv.pool.exists THEN "found" ELSE "none",
                                  !.priorPool = srv.pool]
                   IN  IF changeErr # "nil"
                       THEN /\ b' = [b EXCEPT !.runnerScaleSet = 0,
                                              !.err = "Create runner scale set failed"]
                            /\ run' = [log EXCEPT
                                         !.failed = Append(@, "createRunnerScaleSet")]
                            /\ UNCHANGED srv
                       ELSE /\ b' = [b EXCEPT !.runnerScaleSet = 1]
                            /\ run' = log
                            /\ srv' = [srv EXCEPT !.pool =
                                         [exists |-> TRUE,
                                          ephemeral |-> NewRunnerScaleSet.ephemeral,
                                          disableUpdate |-> NewRunnerScaleSet.disableUpdate]]
    /\ UNCHANGED <<rsVars, hra, tok, auxVars, ml, mlHist>>

HostnameErrs == {"nil", "HostnameError"}

\* b.createSession() up to its call of createRunnerScaleSetSession, and that
\* function's first lines: the early return on b.err, os.Hostname, retries := 3.
RunCreateSession ==
    /\ run.pc = "createSession"
    /\ IF b.err # "nil"
       THEN /\ run' = [run EXCEPT !.pc = "built", !.err = b.err]
            /\ UNCHANGED b
       ELSE \E hostErr \in HostnameErrs :
              IF hostErr # "nil"
              THEN /\ b' = [b EXCEPT !.err = "Get host name failed"]
                   /\ run' = [run EXCEPT !.pc = "sessionAttempt", !.i = 0,
                                         !.retries = Retries, !.hostName = "",
                                         !.failed = Append(@, "createSession")]
              ELSE /\ run' = [run EXCEPT !.pc = "sessionAttempt", !.i = 0,
                                         !.retries = Retries, !.hostName = "host"]
                   /\ UNCHANGED b
    /\ UNCHANGED <<rsVars, hra, tok, auxVars, ml, srv, mlHist>>

CreateSessionErrs == {"nil", "CreateMessageSessionError"}

\* retries--
RetriesAfterFailure(retries) == retries - 1

\* One iteration of "for i := 0; i < retries; i++": one CreateMessageSession
\* call; on success createRunnerScaleSetSession returns the session and
\* createSession stores it with a nil b.err; on failure retries--, the sleep
\* and i++.
RunSessionAttempt ==
    /\ run.pc = "sessionAttempt"
    /\ run.i < run.retries
    /\ \E err \in CreateSessionErrs :
         IF err = "nil"
         THEN LET session == [nil |-> FALSE, sessionId |-> 1,
                              scaleSetId |-> b.runnerScaleSet,
                              tokenGen |-> srv.tokenGen]
              IN  /\ b' = [b EXCEPT !.session = session, !.err = "nil"]
                  /\ run' = [run EXCEPT
                               !.pc = "built", !.err = "nil",
                               !.calls = Append(@, "CreateMessageSession"),
                               !.attempts = @ + 1,
                               !.created = session]
         ELSE /\ run' = [run EXCEPT
                           !.calls = Append(@, "CreateMessageSession"),
                           !.attempts = @ + 1,
                           !.retries = RetriesAfterFailure(@),
                           !.sleeps = @ + 1,
                           !.i = @ + 1]
              /\ UNCHANGED b
    /\ UNCHANGED <<rsVars, hra, tok, auxVars, ml, srv, mlHist>>

\* The loop condition fails: createRunnerScaleSetSession returns
\* fmt.Errorf("Unable to create session in %d attempts", retries), which
\* createSession stores and returns.
RunSessionGiveUp ==
    /\ run.pc = "sessionAttempt"
    /\ ~(run.i < run.retries)
    /\ b' = [b EXCEPT !.session = NilSession, !.err = "Unable to create session"]
    /\ run' = [run EXCEPT !.pc = "built", !.err = "Unable to create session",
                          !.reported = run.retries,
                          !.failed = IF "createSession" \in Range(@) THEN @
                                     ELSE Append(@, "createSession")]
    /\ UNCHANGED <<rsVars, hra, tok, auxVars, ml, srv, mlHist>>

\* A variant of DefersDestroy that defers the teardown whatever setup returned.
DefersDestroyAlways(err) == TRUE

\* Whether Listener.Run gets past "if err != nil { return err }" to
\* "defer builder.destroy()".
DefersDestroy(err) == err = "nil"

\* Listener.Run after the builder's chain: the return on a setup error, or the
\* deferred destroy and the start of runAndNotify with its locals copied from
\* the builder.
RunAfterBuild ==
    /\ run.pc = "built"
    /\ IF DefersDestroy(run.err)
       THEN /\ run' = [run EXCEPT !.pc = "loop", !.deferred = TRUE]
            /\ ml' = [pc |-> "top", lastMessageId |-> 0, session |-> b.session,
                      actionsAdminConnection |-> b.actionsAdminConnection,
                      message |-> NoMessage]
       ELSE /\ run' = [run EXCEPT !.pc = "returned"]
            /\ UNCHANGED ml
    /\ UNCHANGED <<rsVars, hra, tok, auxVars, b, srv, mlHist>>

\* The arguments of the DeleteMessageSession call of builder.destroy.
DestroyArgs(builder) ==
    [scaleSetId |-> builder.session.scaleSetId, sessionId |-> builder.session.sessionId]

\* runAndNotify has returned, or panicked, and the deferred builder.destroy()
\* runs: one DeleteMessageSession call, whose error nobody reads.
RunDestroy ==
    /\ run.pc = "loop"
    /\ run.deferred
    /\ ml.pc \in {"stopped", "panicked"}
    /\ run' = [run EXCEPT
                 !.pc = "returned",
                 !.err = IF ml.pc = "stopped" THEN "nil" ELSE "panic",
                 !.deferred = FALSE,
                 !.calls = Append(@, "DeleteMessageSession"),
                 !.destroyCalls = Append(@, DestroyArgs(b))]
    /\ UNCHANGED <<rsVars, hra, tok, auxVars, ml, b, srv, mlHist>>

\* Listener.Run inside runAndNotify, its setup done without error.
RunInLoop ==
    [RunStart EXCEPT
       !.pc = "loop", !.deferred = TRUE, !.hostName = "host", !.found = "none",
       !.calls = <<"GetActionsServiceAdminConnection", "GetRunnerScaleSet",
                   "CreateRunnerScaleSet", "CreateMessageSession">>,
       !.settings = <<NewRunnerScaleSet>>, !.attempts = 1, !.retries = Retries,
       !.created = [nil |-> FALSE, sessionId |-> 1, scaleSetId |-> 1, tokenGen |-> 0]]

\* ---------------------------------------------------------- Listener.Validate

\* The configurations Validate is called with: each string empty or not, each
\* id zero or not.
Configs ==
    [RunnerRepository : {"", "repo"}, RunnerOrg : {"", "org"}, Token : {"", "token"},
     RunnerScaleSetName : {"", "name"}, AppID : {0, 1}, AppInstallationID : {0, 1},
     AppPrivateKey : {"", "key"}, BasicauthUsername : {"", "user"},
     BasicauthPassword : {"", "password"}]

\* values := append(others, first), and whether one of them has length 0.
AnyEmpty(first, others) ==
    LET values == Append(others, first)
    IN  \E k \in 1 .. Len(values) : values[k] = ""

\* What Validate returns: "nil" or one of its two errors.
Validate(c) ==
    IF AnyEmpty(c.RunnerRepository, <<c.RunnerOrg, c.Token, c.RunnerScaleSetName>>)
    THEN "GitHub config is not provided"
    ELSE LET hasToken            == c.Token # ""
             hasPrivateKeyConfig == c.AppID > 0 /\ c.AppInstallationID > 0
                                    /\ c.AppPrivateKey # ""
             hasBasicAuth        == c.BasicauthUsername # "" /\ c.BasicauthPassword # ""
         IN  IF ~hasToken /\ ~hasPrivateKeyConfig /\ ~hasBasicAuth
             THEN "GitHub client cannot initialize"
             ELSE "nil"

NotValidated == "notCalled"

\* The listener New builds around no configuration at all.
NoConfig ==
    [ghConfig |-> [RunnerRepository |-> "", RunnerOrg |-> "", Token |-> "",
                   RunnerScaleSetName |-> "", AppID |-> 0, AppInstallationID |-> 0,
                   AppPrivateKey |-> "", BasicauthUsername |-> "",
                   BasicauthPassword |-> ""],
     validated |-> NotValidated]

\* One call of Listener.Validate.
ListenerValidate ==
    /\ cfg.validated = NotValidated
    /\ cfg' = [cfg EXCEPT !.validated = Validate(cfg.ghConfig)]
    /\ UNCHANGED <<rsVars, hra, mlVars, run, tok, conc, notify>>

\* ------------------------------------------------------------ specification

InitialCreated == {0 - RegistrationTimeout, 0}

\* The message loop as Listener.Run starts it: the session is created, nothing
\* is read yet.
LoopStart ==
    /\ ml = [pc |-> "top", lastMessageId |-> 0,
             session |-> [nil |-> FALSE, sessionId |-> 1, scaleSetId |-> 1, tokenGen |-> 0],
             actionsAdminConnection |-> 0, message |-> NoMessage]
    /\ b = [actionsAdminConnection |-> 0, serviceAdminToken |-> 0,
            runnerScaleSet |-> 1,
            session |-> [nil |-> FALSE, sessionId |-> 1, scaleSetId |-> 1, tokenGen |-> 0],
            err |-> "nil"]
    /\ srv = [queue |-> {}, nextId |-> 1, tokenGen |-> 0, expired |-> FALSE,
              adminGen |-> 0, cancelled |-> FALSE, expiries |-> 0,
              pool |-> [exists |-> TRUE, ephemeral |-> TRUE, disableUpdate |-> TRUE]]
    /\ run = RunInLoop
    /\ tok = NoTokens
    /\ mlHist = [dispatched |-> <<>>, handled |-> <<>>, deleteCalls |-> <<>>,
                 lastPoll |-> [cursor |-> 0, outcome |-> "none", running |-> 0],
                 prevPoll |-> [cursor |-> 0, outcome |-> "none", running |-> 0],
                 pollTick |-> 0, running |-> 0, refreshAfter |-> "none",
                 reads |-> <<>>, dispatches |-> <<>>, refreshCalls |-> {}]

\* Nothing validated.
AuxStart == cfg = NoConfig /\ conc = NoCallers /\ notify = NilChannel

\* An empty cluster and a replica set that asks for no runner.
EmptyCluster ==
    /\ now = 0
    /\ runners = [r \in AllNames |-> NoRunner]
    /\ ghRunners = [r \in AllNames |-> Unlisted]
    /\ rsMeta = LiveReplicaSet
    /\ specReplicas = 0
    /\ rsStatus = [available |-> 0, ready |-> 0]
    /\ rc = IdleRc
    /\ result = OkResult
    /\ pass = NoPass

\* Any cluster of up to MaxRunners runners, each in any state at GitHub and
\* either just created or RegistrationTimeout minutes old, and any replica count.
RSInit ==
    /\ now = 0
    /\ \E k \in 0 .. MaxRunners :
         /\ runners \in [AllNames -> [present : BOOLEAN, created : InitialCreated,
                                      phase : {"Running", ""}]
                                     \cup {NoRunner}]
         /\ \A r \in Names :
              IF r <= k
              THEN runners[r].present /\ runners[r].phase = "Running"
              ELSE runners[r] = NoRunner
    /\ runners[OtherRunner] \in {NoRunner, [present |-> TRUE, created |-> 0, phase |-> "Running"]}
    /\ ghRunners \in [AllNames -> GhStates]
    /\ \A r \in Names : ~runners[r].present => ghRunners[r] = Unlisted
    /\ ghRunners[OtherRunner] =
         IF runners[OtherRunner].present
         THEN [listed |-> TRUE, status |-> "online", busy |-> FALSE]
         ELSE Unlisted
    /\ rsMeta = LiveReplicaSet
    /\ specReplicas \in {NoReplicas} \cup (0 .. MaxRunners)
    /\ rsStatus = [available |-> 0, ready |-> 0]
    /\ rc = IdleRc
    /\ result = OkResult
    /\ pass = NoPass
    /\ apiFaults = TRUE
    /\ hra = NoHra
    /\ LoopStart
    /\ AuxStart

RSNext ==
    \/ ReconcileReturnsEarly
    \/ ReplicaSetDeleted
    \/ ReconcileBegin
    \/ ReconcileProbe
    \/ ReconcileDelete
    \/ ReconcileCreate
    \/ ReconcileStatus
    \/ JobAssigned
    \/ Tick

\* The reconciler against a job source that assigns jobs while it runs.
SpecRS == RSInit /\ [][RSNext]_vars

HystInit ==
    /\ EmptyCluster
    /\ apiFaults = FALSE
    /\ hra = NoHra
    /\ LoopStart
    /\ AuxStart

HystNext ==
    \/ HRAReconcile
    \/ ReconcileBegin
    \/ ReconcileProbe
    \/ ReconcileDelete
    \/ ReconcileCreate
    \/ ReconcileStatus
    \/ RunnerRegisters
    \/ Tick

\* A cluster of up to MaxRunners runners, all registered, online and idle, a
\* replica count that stays as it is, and API calls that do not fail.
ConvInit ==
    /\ now = 0
    /\ \E k \in 0 .. MaxRunners :
         /\ runners \in [AllNames -> [present : BOOLEAN, created : InitialCreated,
                                      phase : {"Running", ""}]
                                     \cup {NoRunner}]
         /\ \A r \in Names :
              IF r <= k
              THEN runners[r].present /\ runners[r].phase = "Running"
              ELSE runners[r] = NoRunner
    /\ runners[OtherRunner] = NoRunner
    /\ rsMeta = LiveReplicaSet
    /\ ghRunners = [r \in AllNames |->
                      IF runners[r].present
                      THEN [listed |-> TRUE, status |-> "online", busy |-> FALSE]
                      ELSE Unlisted]
    /\ specReplicas \in {NoReplicas} \cup (0 .. MaxRunners)
    /\ rsStatus = [available |-> 0, ready |-> 0]
    /\ rc = IdleRc
    /\ result = OkResult
    /\ pass = NoPass
    /\ apiFaults = FALSE
    /\ hra = NoHra
    /\ LoopStart
    /\ AuxStart

ConvNext ==
    \/ ReconcileBegin
    \/ ReconcileProbe
    \/ ReconcileDelete
    \/ ReconcileCreate
    \/ ReconcileStatus
    \/ RunnerRegisters
    \/ Tick

\* The controller calls Reconcile again and again, and each call it makes to
\* the cluster and to GitHub returns.
ConvFairness ==
    /\ WF_vars(ReconcileBegin)
    /\ WF_vars(ReconcileProbe)
    /\ WF_vars(ReconcileDelete)
    /\ WF_vars(ReconcileCreate)
    /\ WF_vars(ReconcileStatus)

\* Repeated Reconcile passes over a cluster nothing else changes.
SpecConv == ConvInit /\ [][ConvNext]_vars /\ ConvFairness

TokInit ==
    /\ EmptyCluster
    /\ apiFaults = FALSE
    /\ hra = NoHra
    /\ LoopStart
    /\ AuxStart

TokNext ==
    \/ GetRegistrationToken
    \/ Cleanup
    \/ Tick

\* Calls of GetRegistrationToken as the clock moves and cleanups run.
SpecTok == TokInit /\ [][TokNext]_vars

\* Listener.Validate called once on any configuration.
ValInit ==
    /\ EmptyCluster
    /\ apiFaults = FALSE
    /\ hra = NoHra
    /\ LoopStart
    /\ cfg \in [ghConfig : Configs, validated : {NotValidated}]
    /\ conc = NoCallers
    /\ notify = NilChannel

ValNext == ListenerValidate

SpecVal == ValInit /\ [][ValNext]_vars

ConcInit ==
    /\ EmptyCluster
    /\ apiFaults = FALSE
    /\ hra = NoHra
    /\ LoopStart
    /\ AuxStart

ConcNext ==
    \/ CallerLocks
    \/ CallerLooksUp
    \/ CallerCreates
    \/ CallerUnlocks
    \/ CleanupLocks
    \/ CleanupRuns

\* MaxCallers goroutines call GetRegistrationToken for one key at one time of
\* the clock, in any interleaving with each other and with the cleanups.
SpecConc == ConcInit /\ [][ConcNext]_vars

\* The reconciler driven by the autoscaler, from an empty cluster.
SpecHyst == HystInit /\ [][HystNext]_vars

MLInit ==
    /\ EmptyCluster
    /\ apiFaults = FALSE
    /\ hra = NoHra
    /\ LoopStart
    /\ AuxStart

MLNext ==
    \/ MlPoll
    \/ MlDeleteMessage
    \/ MlDispatch
    \/ MlHandlerReturn
    \/ MlRefreshAdmin
    \/ MlRefreshSession
    \/ EnqueueMessage
    \/ TokenExpires
    \/ Cancel

\* The message loop started with any channel.
NotifyInit ==
    /\ EmptyCluster
    /\ apiFaults = FALSE
    /\ hra = NoHra
    /\ LoopStart
    /\ cfg = NoConfig
    /\ conc = NoCallers
    /\ notify \in Channels

SpecNotify == NotifyInit /\ [][MLNext]_vars

\* The message loop against the job source's queue.
SpecML == MLInit /\ [][MLNext]_vars

\* Every step of the loop that can be taken is taken in the end: each call the
\* loop makes returns.
MLFairness ==
    /\ WF_vars(MlPoll)
    /\ WF_vars(MlDeleteMessage)
    /\ WF_vars(MlDispatch)
    /\ WF_vars(MlHandlerReturn)
    /\ WF_vars(MlRefreshAdmin)
    /\ WF_vars(MlRefreshSession)

\* The message loop, each of its calls returning.
SpecMLFair == MLInit /\ [][MLNext]_vars /\ MLFairness

\* Listener.Run as it is called: nothing built, the scale set of the name in
\* any state at the job source, no message on the queue.
RunInit ==
    /\ EmptyCluster
    /\ apiFaults = FALSE
    /\ hra = NoHra
    /\ ml = NotStarted
    /\ b = NewBuilder
    /\ \E pool \in PoolStates :
         srv = [queue |-> {}, nextId |-> 1, tokenGen |-> 0, expired |-> FALSE,
                adminGen |-> 0, cancelled |-> FALSE, expiries |-> 0, pool |-> pool]
    /\ mlHist = [dispatched |-> <<>>, handled |-> <<>>, deleteCalls |-> <<>>,
                 lastPoll |-> [cursor |-> 0, outcome |-> "none", running |-> 0],
                 prevPoll |-> [cursor |-> 0, outcome |-> "none", running |-> 0],
                 pollTick |-> 0, running |-> 0, refreshAfter |-> "none",
                 reads |-> <<>>, dispatches |-> <<>>, refreshCalls |-> {}]
    /\ run = RunStart
    /\ tok = NoTokens
    /\ AuxStart

RunNext ==
    \/ RunCreateAdminConn
    \/ RunCreateServiceClient
    \/ RunCreateRunnerScaleSet
    \/ RunCreateSession
    \/ RunSessionAttempt
    \/ RunSessionGiveUp
    \/ RunAfterBuild
    \/ MlPoll
    \/ MlRefreshAdmin
    \/ MlRefreshSession
    \/ RunDestroy
    \/ TokenExpires
    \/ Cancel

\* Listener.Run from its call to its return, against a job source whose calls
\* can fail.
SpecRun == RunInit /\ [][RunNext]_vars

\* ------------------------------------------------------------------- claims

\* The probe entries the pass has logged for a runner.
ProbesOf(name) == {pass.probes[j] : j \in {k \in 1 .. Len(pass.probes) : pass.probes[k].name = name}}

Deleted == Range(pass.deleted)

\* C1: in a scale-down pass no runner whose IsRunnerBusy probe of that pass
\* reported busy=true is deleted in that pass, whatever else the probe reported.
C1_NoRunnerProbedBusyIsDeleted ==
    \A r \in Deleted : \A p \in ProbesOf(r) : ~p.busy

\* C2: a runner that was probed not busy and is busy at the job source at the
\* moment of its delete call is not deleted.
C2_NoRunnerBusyAtDeletionIsDeleted ==
    \A r \in pass.deletedBusy : \A p \in ProbesOf(r) : ~(p.err = "nil" /\ ~p.busy)

\* C3: when a scale-down pass that ran to its end deleted an online idle runner,
\* it deleted every runner it probed offline.
C3_OfflineDeletedBeforeIdle ==
    (/\ pass.ended = "ok"
     /\ \E r \in Deleted : \E p \in ProbesOf(r) : p.err = "nil" /\ ~p.busy)
    => \A q \in Range(pass.probes) : q.err = "RunnerOffline" => q.name \in Deleted

\* C4: a pass in which an IsRunnerBusy probe returned a rate-limit error, at
\* whichever index, deletes no runner, creates none and writes no status.
C4_RateLimitAbortsPass ==
    (\E p \in Range(pass.probes) : p.err = "RateLimitError")
    => /\ pass.deleted = <<>>
       /\ pass.created = 0
       /\ pass.statusWrites = 0
       /\ rc.pc = "idle"

\* A pass that found a candidate on its first probe, was rate-limited on a
\* later one and has returned.
C4_Witness ==
    /\ pass.ended = "RateLimitError"
    /\ Len(pass.probes) >= 2
    /\ pass.probes[1].err = "nil" /\ ~pass.probes[1].busy
    /\ pass.probes[Len(pass.probes)].err = "RateLimitError"

\* C5: on a rate-limit probe error Reconcile returns a result that requests a
\* requeue after the rate-limit delay, and no error.
C5_RateLimitRequeuesWithoutError ==
    pass.ended = "RateLimitError"
    => result = [requeueAfter |-> RetryDelayOnGitHubAPIRateLimitError, err |-> "nil"]

\* C6: a runner whose probe returned RunnerNotFound is among the deletion
\* candidates exactly when its age at the probe exceeds the registration
\* timeout, and only candidates are deleted.
C6_RegistrationGrace ==
    /\ \A p \in Range(pass.probes) :
         p.err = "RunnerNotFound"
         => (p.name \in Range(pass.notBusy) <=> p.age > RegistrationTimeout)
    /\ \A p \in Range(pass.probes) :
         (p.err = "RunnerNotFound" /\ p.age <= RegistrationTimeout) => p.name \notin Deleted

\* A finished pass that deleted an unregistered runner older than the timeout
\* and kept an unregistered runner whose age is exactly the timeout.
C6_Witness ==
    /\ pass.ended = "ok"
    /\ \E p \in Range(pass.probes) :
         p.err = "RunnerNotFound" /\ p.age > RegistrationTimeout /\ p.name \in Deleted
    /\ \E p \in Range(pass.probes) :
         /\ p.err = "RunnerNotFound" /\ p.age = RegistrationTimeout
         /\ p.name \notin Deleted /\ runners[p.name].present

\* A step of the pass that deletes a runner.
DeletesRunner == Len(pass'.deleted) > Len(pass.deleted)

StrictlyIncreasing(s) == \A j \in 1 .. Len(s) - 1 : s[j] < s[j + 1]

\* C8: the loop dispatches one message at a time, each GetMessage is issued
\* with no handler running, the dispatched message ids are strictly increasing,
\* and the cursor lastMessageId never decreases.
C8_OrderedSequentialDispatch ==
    /\ [](/\ StrictlyIncreasing(mlHist.dispatched)
          /\ mlHist.running <= 1
          /\ mlHist.lastPoll.running = 0)
    /\ [][ml'.lastMessageId >= ml.lastMessageId]_vars

\* Two messages dispatched, the second after a refresh of the session, the
\* first one's delete having left it on the queue.
C8_Witness ==
    /\ Len(mlHist.dispatched) = 2
    /\ mlHist.refreshAfter = "MessageQueueTokenExpiredError"
    /\ ml.session.tokenGen = 1
    /\ \E m \in srv.queue : m.id = 1
    /\ ml.lastMessageId = 2

NonMessageOutcomes == {"GetMessageError", "MessageQueueTokenExpiredError", "empty"}

\* A step of the loop that polls.
Polls == mlHist'.pollTick # mlHist.pollTick

\* C9: a poll that fails or is empty and the steps of a refresh leave the
\* cursor, the DeleteMessage calls and the dispatches as they were, and the
\* poll after such a poll is issued with the same cursor.
C9_FailedPollAndRefreshKeepCursor ==
    [][/\ ((Polls /\ mlHist'.lastPoll.outcome \in NonMessageOutcomes)
           \/ ml.pc \in {"refreshAdmin", "refreshSession"})
          => /\ ml'.lastMessageId = ml.lastMessageId
             /\ mlHist'.deleteCalls = mlHist.deleteCalls
             /\ mlHist'.dispatched = mlHist.dispatched
             /\ mlHist'.handled = mlHist.handled
             /\ ml'.pc \notin {"deleteMessage", "dispatch", "handler"}
       /\ (Polls /\ mlHist.lastPoll.outcome \in NonMessageOutcomes)
          => mlHist'.lastPoll.cursor = mlHist.lastPoll.cursor]_vars

\* After message 1 was read, a poll met the lapsed token, the admin handshake
\* of the refresh failed, and the next poll was issued with cursor 1 again.
C9_Witness ==
    /\ mlHist.prevPoll.outcome = "MessageQueueTokenExpiredError"
    /\ mlHist.prevPoll.cursor = 1
    /\ mlHist.lastPoll.cursor = 1
    /\ mlHist.lastPoll.outcome = "MessageQueueTokenExpiredError"
    /\ b.actionsAdminConnection = NilConn
    /\ ml.lastMessageId = 1

\* C10: the loop makes the calls of a session refresh only after a GetMessage
\* that returned MessageQueueTokenExpiredError; after any other GetMessage
\* error it is back at the top of the loop.
C10_RefreshOnlyOnTokenExpiry ==
    /\ mlHist.refreshAfter \in {"none", "MessageQueueTokenExpiredError"}
    /\ ml.pc \in {"refreshAdmin", "refreshSession"}
       => mlHist.lastPoll.outcome = "MessageQueueTokenExpiredError"
    /\ mlHist.lastPoll.outcome = "GetMessageError" => ml.pc \in {"top", "stopped"}

\* A session was refreshed, and a later GetMessage error sent the loop back to
\* the top without a refresh.
C10_Witness ==
    /\ mlHist.refreshAfter = "MessageQueueTokenExpiredError"
    /\ ml.session.tokenGen = 1
    /\ mlHist.lastPoll.outcome = "GetMessageError"
    /\ ml.pc = "top"

\* Whether the loop holds the session Listener.Run created for it.
SessionUsable(session) ==
    /\ ~session.nil
    /\ session.sessionId = b.session.sessionId
    /\ session.scaleSetId = b.session.scaleSetId

\* C11: whatever errors GetMessage, the admin handshake and
\* RefreshMessageSession return, the loop has not faulted, it has stopped only
\* on cancellation, and it holds a usable session of the ids it started with.
C11_LoopNeverGivesUp ==
    /\ ml.pc # "panicked"
    /\ ml.pc = "stopped" => srv.cancelled
    /\ SessionUsable(ml.session)

\* C12: a step the loop takes at its cancellation check with the context
\* cancelled ends it with no GetMessage, no DeleteMessage and no dispatch; a
\* stopped loop does nothing more; and a loop that is running when the context
\* is cancelled, or later, reaches the stopped state.
C12_CancellationStopsLoop ==
    /\ [][(CtxDone(srv) /\ ml.pc = "top" /\ ml' # ml)
          => (ml'.pc = "stopped" /\ mlHist' = mlHist /\ srv' = srv)]_vars
    /\ [][ml.pc = "stopped" => (ml' = ml /\ mlHist' = mlHist)]_vars
    /\ ((srv.cancelled /\ ml.pc # "panicked") ~> (ml.pc = "stopped"))

\* The loop stopped after it dispatched a message, and left unread a message
\* that was waiting on the queue.
C12_Witness ==
    /\ ml.pc = "stopped"
    /\ Len(mlHist.dispatched) >= 1
    /\ \E m \in srv.queue : m.id > ml.lastMessageId

\* C13: builder.destroy calls DeleteMessageSession at most once, only for a
\* session that CreateMessageSession returned and with that session's scale-set
\* id and session id, and it has done so whenever Listener.Run has returned
\* after the session was created.
C13_SessionTornDownOnce ==
    /\ Len(run.destroyCalls) <= 1
    /\ \A k \in 1 .. Len(run.destroyCalls) :
         /\ ~run.created.nil
         /\ run.destroyCalls[k] = [scaleSetId |-> run.created.scaleSetId,
                                   sessionId |-> run.created.sessionId]
    /\ (run.pc = "returned" /\ ~run.created.nil) => Len(run.destroyCalls) = 1

\* Listener.Run returned on cancellation after the loop had refreshed its
\* session, and the session was torn down.
C13_Witness ==
    /\ run.pc = "returned"
    /\ ml.pc = "stopped"
    /\ ml.session.tokenGen = 1
    /\ Len(run.destroyCalls) = 1

\* The setup step a call to the job source belongs to.
SetupStepOfCall(call) ==
    CASE call = "GetActionsServiceAdminConnection" -> 1
      [] call \in {"GetRunnerScaleSet", "ReplaceRunnerScaleSet", "CreateRunnerScaleSet"} -> 3
      [] call = "CreateMessageSession" -> 4
      [] OTHER -> 5

SetupStepNumber(step) ==
    CASE step = "createAdminConn" -> 1
      [] step = "createRunnerScaleSet" -> 3
      [] OTHER -> 4

\* The errors a failing setup step hands to Listener.Run.
SetupErrorsOf(step) ==
    CASE step = "createAdminConn" ->
           {"Could not create an Actions Service admin connection"}
      [] step = "createRunnerScaleSet" ->
           {"Can not found runner scale set", "Create runner scale set failed"}
      [] OTHER -> {"Get host name failed", "Unable to create session"}

SetupCalls == {k \in 1 .. Len(run.calls) : SetupStepOfCall(run.calls[k]) <= 4}

\* C14: setup calls the job source in the order of its steps, no step after
\* the first failing one calls it, and once setup is over Listener.Run holds
\* an error of the first failing step.
C14_SetupStopsAtFirstFailure ==
    /\ \A j, k \in SetupCalls :
         j < k => SetupStepOfCall(run.calls[j]) <= SetupStepOfCall(run.calls[k])
    /\ run.failed # <<>>
       => \A k \in SetupCalls :
            SetupStepOfCall(run.calls[k]) <= SetupStepNumber(run.failed[1])
    /\ (run.failed # <<>> /\ run.pc \in {"built", "loop", "returned"})
       => run.err \in SetupErrorsOf(run.failed[1])

\* C15: createRunnerScaleSetSession never makes more than 3 CreateMessageSession
\* calls; when it gives up it has made 3, slept between them, and its error
\* reports 3 attempts; a session is returned by the first call that succeeds.
C15_ThreeSessionAttempts ==
    /\ run.attempts <= 3
    /\ run.err = "Unable to create session"
       => /\ run.attempts = 3
          /\ run.reported = 3
          /\ run.sleeps >= 2
    /\ ~run.created.nil => run.sleeps = run.attempts - 1

CallCount(call) == Cardinality({k \in 1 .. Len(run.calls) : run.calls[k] = call})

\* C20: once createRunnerScaleSet has run, a lookup that found the scale set
\* was followed by one Replace and no Create, a lookup that found none by one
\* Create and no Replace, each with Ephemeral and DisableUpdate set, and a
\* lookup that failed by neither, with setup failing on its error.
C20_PoolLookupOrCreate ==
    /\ run.found = "found"
       => /\ CallCount("ReplaceRunnerScaleSet") = 1
          /\ CallCount("CreateRunnerScaleSet") = 0
          /\ run.settings = <<[ephemeral |-> TRUE, disableUpdate |-> TRUE]>>
    /\ run.found = "none"
       => /\ CallCount("CreateRunnerScaleSet") = 1
          /\ CallCount("ReplaceRunnerScaleSet") = 0
          /\ run.settings = <<[ephemeral |-> TRUE, disableUpdate |-> TRUE]>>
    /\ run.found = "error"
       => /\ CallCount("ReplaceRunnerScaleSet") = 0
          /\ CallCount("CreateRunnerScaleSet") = 0
          /\ run.settings = <<>>
          /\ b.err = "Can not found runner scale set"
          /\ ml.pc = "notStarted"
          /\ run.pc \in {"built", "returned"} => run.err = "Can not found runner scale set"
    /\ run.found = "unknown" => CallCount("GetRunnerScaleSet") = 0
    /\ CallCount("GetRunnerScaleSet") <= 1

\* Setup found a scale set that was neither ephemeral nor update-disabled,
\* replaced it, and the loop runs against the scale set with both set.
C20_Witness ==
    /\ run.found = "found"
    /\ ~run.priorPool.ephemeral /\ ~run.priorPool.disableUpdate
    /\ srv.pool = [exists |-> TRUE, ephemeral |-> TRUE, disableUpdate |-> TRUE]
    /\ run.pc = "loop"

\* The smaller of available - desired and the number of candidates.
MinOf(x, y) == IF x < y THEN x ELSE y

\* A pass that has left its probe, delete and create loops without an error.
LoopsDone == pass.ended \in {"ok", "UpdateError"}

\* C16: a scale-down pass never deletes a runner that is not among its
\* not-busy candidates, nor one twice, nor more than
\* min(available - desired, number of candidates); with its probes and deletes
\* done without error it has deleted exactly that many.
C16_ScaleDownDeletesMinOfSurplusAndCandidates ==
    pass.branch = "probe"
    => /\ Deleted \subseteq Range(pass.notBusy)
       /\ Cardinality(Deleted) = Len(pass.deleted)
       /\ Len(pass.deleted) <= MinOf(pass.available - pass.desired, Len(pass.notBusy))
       /\ LoopsDone
          => Len(pass.deleted) = MinOf(pass.available - pass.desired, Len(pass.notBusy))

\* A finished pass that had two runners too many and one candidate, and deleted
\* the one.
C16_Witness ==
    /\ pass.branch = "probe" /\ pass.ended = "ok"
    /\ pass.available - pass.desired = 2
    /\ Len(pass.notBusy) = 1
    /\ Len(pass.deleted) = 1

\* The desired count the replica set asks for: spec.Replicas, 1 when unset.
Wanted == IF specReplicas = NoReplicas THEN 1 ELSE specReplicas

\* C17: a pass that found fewer runners than desired deletes none, and with its
\* creates done without error it has created desired - available runners, each
\* with the replica set as controller and the template's spec; desired is
\* spec.Replicas, and 1 where that is unset.
C17_ScaleUpCreatesTheShortfall ==
    /\ pass.branch \in {"probe", "create", "status"} => pass.desired = Wanted
    /\ pass.branch = "create"
       => /\ pass.deleted = <<>>
          /\ pass.created = Len(pass.newRunners)
          /\ \A k \in 1 .. Len(pass.newRunners) :
               /\ pass.newRunners[k].controller = "rs"
               /\ pass.newRunners[k].spec = "template"
          /\ pass.created <= Wanted - pass.available
          /\ LoopsDone => pass.created = Wanted - pass.available

\* A finished pass over an empty cluster whose replica set leaves spec.Replicas
\* unset: one runner created.
C17_Witness ==
    /\ specReplicas = NoReplicas
    /\ pass.branch = "create" /\ pass.ended = "ok"
    /\ pass.available = 0
    /\ pass.created = 1

\* C18: with spec.Replicas fixed, no failing call, no busy and no unregistered
\* runner to scale down, repeated passes reach a state from which the number of
\* runners is the desired count for good and the pass in progress has created
\* and deleted nothing.
C18_Converges ==
    <>[](/\ Cardinality({r \in Names : runners[r].present}) = Wanted
         /\ pass.created = 0
         /\ pass.deleted = <<>>)

\* A finished pass that found the desired count, one of the runners being one
\* that an earlier pass created, and that created and deleted nothing.
C18_Witness ==
    /\ pass.branch = "status" /\ pass.ended = "ok"
    /\ pass.available = Wanted
    /\ \E r \in Names : runners[r].present /\ runners[r].created > 0
    /\ pass.created = 0 /\ pass.deleted = <<>>

\* C19: a pass in which a probe returned an error that is neither
\* RunnerNotFound, RunnerOffline nor a rate-limit error has ended with that
\* error and no requeue delay, and has deleted nothing, created nothing and
\* written no status.
C19_OtherProbeErrorIsHardFailure ==
    (\E p \in Range(pass.probes) : p.err = "OtherError")
    => /\ rc.pc = "idle"
       /\ result = [requeueAfter |-> "0s", err |-> "OtherError"]
       /\ pass.deleted = <<>>
       /\ pass.created = 0
       /\ pass.statusWrites = 0

\* A pass that found a candidate on its first probe and ended on the error of
\* its second.
C19_Witness ==
    /\ pass.ended = "OtherError"
    /\ Len(pass.probes) = 2
    /\ pass.probes[1].err = "nil" /\ ~pass.probes[1].busy
    /\ pass.probes[2].err = "OtherError"

\* A step in which a pass gets to the end of Reconcile: past its loops, to the
\* status comparison and the return.
ReachesStatus ==
    /\ rc.pc # "idle" /\ rc'.pc = "idle"
    /\ pass'.ended \in {"ok", "UpdateError"}

\* A step in which Reconcile calls Status().Update: the call failed, or it wrote.
CallsStatusUpdate ==
    \/ pass'.ended = "UpdateError" /\ pass.ended # "UpdateError"
    \/ pass'.statusWrites = pass.statusWrites + 1

LastCallFoundFreshToken ==
    tok.last.ok /\ tok.last.cachedExpiresAt > tok.last.at + 30

\* Whether the arguments of the last call name a repository as owner/name, an
\* organization or an enterprise.
LastCallNamesTarget ==
    \/ Len(tok.last.args.repo) = 2
    \/ /\ tok.last.args.repo = <<>>
       /\ (tok.last.args.org # "" \/ tok.last.args.enterprise # "")

\* C22, as claimed: a call returns the cached token without an API call exactly
\* when a token is cached for the key and expires strictly later than now + 30
\* minutes, and otherwise requests a new token; a token served from the cache
\* is not past its expiration.
C22_CachedTokenServedIffFreshElseRequested ==
    tok.last.served # "none"
    => /\ tok.last.served = "cache" <=> LastCallFoundFreshToken
       /\ tok.last.served = "cache"
          => /\ tok.last.apiCalls = 0
             /\ tok.last.token = [ok |-> TRUE, expiresAt |-> tok.last.cachedExpiresAt]
             /\ tok.last.token.expiresAt > tok.last.at
       /\ tok.last.served # "cache" => tok.last.apiCalls = 1

\* C22, amended: as claimed, except that a call that does not serve from the
\* cache requests a new token only when its arguments name a repository, an
\* organization or an enterprise, and otherwise returns an error without an
\* API call.
C22_CachedTokenServedIffFreshElseRequestedForTarget ==
    tok.last.served # "none"
    => /\ tok.last.served = "cache" <=> LastCallFoundFreshToken
       /\ tok.last.served = "cache"
          => /\ tok.last.apiCalls = 0
             /\ tok.last.token = [ok |-> TRUE, expiresAt |-> tok.last.cachedExpiresAt]
             /\ tok.last.token.expiresAt > tok.last.at
       /\ (tok.last.served # "cache" /\ LastCallNamesTarget) => tok.last.apiCalls = 1
       /\ (tok.last.served # "cache" /\ ~LastCallNamesTarget)
          => /\ tok.last.apiCalls = 0
             /\ tok.last.served = "error"

\* A call that found a cached token expiring exactly 30 minutes later and
\* requested a new one.
C22_Witness ==
    /\ tok.last.served = "api"
    /\ tok.last.ok
    /\ tok.last.cachedExpiresAt = tok.last.at + 30
    /\ tok.last.apiCalls = 1

\* A sequence without its last element.
Front(q) == SubSeq(q, 1, Len(q) - 1)

\* C24: the DeleteMessage calls are the ids GetMessage returned, each once and
\* in the order read, the call for a message coming after its read and before
\* its dispatch; every message so deleted is dispatched and the cursor set to
\* its id, whether or not the delete succeeded.
C24_EachReadMessageDeletedOnceBeforeDispatch ==
    /\ mlHist.deleteCalls =
         IF ml.pc = "deleteMessage" THEN Front(mlHist.reads) ELSE mlHist.reads
    /\ ml.pc = "deleteMessage" => mlHist.reads[Len(mlHist.reads)] = ml.message.id
    /\ StrictlyIncreasing(mlHist.deleteCalls)
    /\ mlHist.dispatched =
         IF ml.pc = "dispatch" THEN Front(mlHist.deleteCalls) ELSE mlHist.deleteCalls
    /\ mlHist.dispatched # <<>>
       => ml.lastMessageId = mlHist.dispatched[Len(mlHist.dispatched)]

\* Both messages were dispatched and the cursor stands at the second, while the
\* first is still on the queue: its DeleteMessage call failed.
C24_Witness ==
    /\ mlHist.deleteCalls = <<1, 2>>
    /\ mlHist.dispatched = <<1, 2>>
    /\ ml.lastMessageId = 2
    /\ \E m \in srv.queue : m.id = 1
    /\ \A m \in srv.queue : m.id # 2

\* C25: every handler is invoked with the cursor already at its message's id,
\* and no poll is issued with a cursor below the id of a message that has been
\* dispatched.
C25_CursorAdvancedBeforeHandler ==
    /\ [](/\ \A k \in 1 .. Len(mlHist.dispatches) :
               mlHist.dispatches[k].cursor = mlHist.dispatches[k].id
          /\ ml.pc = "handler" => ml.lastMessageId = ml.message.id)
    /\ [][Polls => \A k \in 1 .. Len(mlHist.dispatches) :
                     mlHist.dispatches[k].id <= mlHist'.lastPoll.cursor]_vars

\* A handler is running for the second message, the cursor at 2, after a poll
\* issued with cursor 1.
C25_Witness ==
    /\ ml.pc = "handler"
    /\ ml.message.id = 2
    /\ ml.lastMessageId = 2
    /\ mlHist.lastPoll.cursor = 1
    /\ mlHist.lastPoll.outcome = "message"

\* C26: once a refresh has succeeded, the admin token the service client holds
\* is the one the handshake of that refresh returned.
C26_ServiceClientHoldsRefreshedAdminToken ==
    (/\ ml.pc \notin {"refreshAdmin", "refreshSession"}
     /\ ~ml.session.nil
     /\ ml.session.tokenGen >= 1
     /\ b.actionsAdminConnection # NilConn)
    => b.serviceAdminToken = b.actionsAdminConnection

\* C27: the loop's session keeps the ids it was created with, and every
\* MaybeAcquireJob call is given the session the loop polls with at that moment.
C27_AcquireUsesRefreshedSession ==
    /\ (~ml.session.nil /\ ml.session # EmptySession)
       => /\ ml.session.sessionId = b.session.sessionId
          /\ ml.session.scaleSetId = b.session.scaleSetId
    /\ \A k \in 1 .. Len(mlHist.dispatches) :
         mlHist.dispatches[k].handler = "MaybeAcquireJob"
         => mlHist.dispatches[k].session = mlHist.dispatches[k].loopSession

\* C28: the refresh path calls only GetActionsServiceAdminConnection and
\* RefreshMessageSession, the latter with the scale-set id and session id of
\* setup; the scale-set lookup, replace and create and CreateMessageSession
\* are called by setup alone, and the loop leaves the scale set as it is.
C28_RefreshMakesNoSetupCall ==
    /\ [](/\ \A call \in mlHist.refreshCalls :
               /\ call.op \in {"GetActionsServiceAdminConnection", "RefreshMessageSession"}
               /\ call.op = "RefreshMessageSession"
                  => /\ ~run.created.nil
                     /\ call.scaleSetId = b.runnerScaleSet
                     /\ call.sessionId = run.created.sessionId
          /\ mlHist.refreshCalls # {}
             => /\ CallCount("GetRunnerScaleSet") = 1
                /\ CallCount("ReplaceRunnerScaleSet") + CallCount("CreateRunnerScaleSet") = 1
                /\ CallCount("CreateMessageSession") = run.attempts)
    /\ [][ml.pc \in {"top", "refreshAdmin", "refreshSession"}
          => /\ run'.calls = run.calls \/ run'.pc = "returned"
             /\ srv'.pool = srv.pool
             /\ b'.runnerScaleSet = b.runnerScaleSet]_vars

\* The loop runs on a refreshed session of a scale set that setup created.
C28_Witness ==
    /\ run.pc = "loop"
    /\ run.found = "none"
    /\ ml.session.tokenGen = 1
    /\ [op |-> "RefreshMessageSession", scaleSetId |-> 1, sessionId |-> 1]
         \in mlHist.refreshCalls

KnownMessageTypes ==
    {"RunnerScaleSetJobAvailable", "RunnerScaleSetJobAssigned", "RunnerScaleSetJobCompleted"}

\* C29: every dispatched message was given to the handler of its type, and a
\* message of another type to none; each was deleted and moved the cursor to
\* its id; after a message of another type the loop is back at its top.
C29_DispatchByType ==
    /\ [](\A k \in 1 .. Len(mlHist.dispatches) :
            LET d == mlHist.dispatches[k]
            IN  /\ d.type = "RunnerScaleSetJobAvailable" => d.handler = "MaybeAcquireJob"
                /\ d.type = "RunnerScaleSetJobAssigned" => d.handler = "HandleJobAssignment"
                /\ d.type = "RunnerScaleSetJobCompleted"
                   => d.handler = "NoopHandleJobCompletion"
                /\ d.type \notin KnownMessageTypes => d.handler = "none"
                /\ d.id \in Range(mlHist.deleteCalls)
                /\ d.cursor = d.id)
    /\ [](Len(mlHist.handled) =
            Cardinality({k \in 1 .. Len(mlHist.dispatches) :
                           mlHist.dispatches[k].type \in KnownMessageTypes}))
    /\ [][(ml.pc = "dispatch" /\ ml' # ml)
          => ml'.pc = IF ml.message.type \in KnownMessageTypes THEN "handler" ELSE "top"]_vars

\* A message of an unknown type was dropped, and the message after it was
\* given to its handler.
C29_Witness ==
    /\ Len(mlHist.dispatches) = 2
    /\ mlHist.dispatches[1].type = "SomethingElse"
    /\ mlHist.dispatches[1].handler = "none"
    /\ mlHist.dispatches[2].handler = "NoopHandleJobCompletion"
    /\ 1 \notin {m.id : m \in srv.queue}
    /\ ml.lastMessageId = 2

\* C30: once a step of setup has failed, the message loop is never started, no
\* GetMessage, dispatch or DeleteMessageSession call is made, the builder holds
\* no session, and Listener.Run returns an error.
C30_FailedSetupStartsNothing ==
    run.failed # <<>>
    => /\ ml.pc = "notStarted"
       /\ mlHist.lastPoll.outcome = "none"
       /\ mlHist.dispatches = <<>>
       /\ run.destroyCalls = <<>>
       /\ b.session.nil
       /\ run.pc \in {"built", "returned"} => run.err # "nil"

\* C31: with repository, organisation and scale-set name given, Validate
\* returns nil exactly for the configurations that carry a token, or a
\* complete private-key configuration, or a basic-auth user and password.
C31_ValidateAcceptsAnyOneCredentialKind ==
    LET c == cfg.ghConfig
    IN  (/\ cfg.validated # NotValidated
         /\ c.RunnerRepository # "" /\ c.RunnerOrg # "" /\ c.RunnerScaleSetName # "")
        => (cfg.validated = "nil"
            <=> \/ c.Token # ""
                \/ c.AppID > 0 /\ c.AppInstallationID > 0 /\ c.AppPrivateKey # ""
                \/ c.BasicauthUsername # "" /\ c.BasicauthPassword # "")

\* A step that makes one IsRunnerBusy call.
ProbesRunner == Len(pass'.probes) > Len(pass.probes)

\* C32: every IsRunnerBusy call returns one of four outcomes, told apart by the
\* error: nil with the listed busy flag for a listed runner that is not
\* offline, RunnerOffline with the listed busy flag for a listed offline
\* runner, RunnerNotFound with false for a runner that is not listed, and the
\* listing error with false when the listing failed.
C32_IsRunnerBusyOutcomes ==
    [][ProbesRunner =>
         LET e  == pass'.probes[Len(pass'.probes)]
             gh == ghRunners[e.name]
         IN  /\ e.err \in {"nil", "RunnerOffline", "RunnerNotFound"} \cup (ListErrs \ {"nil"})
             /\ e.err = "nil"
                => gh.listed /\ gh.status # "offline" /\ e.busy = gh.busy
             /\ e.err = "RunnerOffline"
                => gh.listed /\ gh.status = "offline" /\ e.busy = gh.busy
             /\ e.err = "RunnerNotFound" => ~gh.listed /\ e.busy = FALSE
             /\ e.err \in ListErrs \ {"nil"} => e.busy = FALSE]_vars

\* One pass has probed a listed busy runner and a listed offline runner.
C32_Witness ==
    \E j, k \in 1 .. Len(pass.probes) :
      /\ pass.probes[j].err = "nil" /\ pass.probes[j].busy
      /\ pass.probes[k].err = "RunnerOffline" /\ ~pass.probes[k].busy

\* A step that starts a pass which gets as far as counting the runners.
CountsRunners == rc.pc = "idle" /\ rc'.pc # "idle"

\* C33: a pass counts, probes and deletes only runners the replica set
\* controls: available is the number of those runners whatever their phase,
\* ready the number of those in phase Running, 0 <= ready <= available, and a
\* runner another replica set controls is neither probed nor deleted.
C33_OnlyOwnRunnersCountedProbedDeleted ==
    /\ [](/\ \A k \in 1 .. Len(rc.myRunners) : IsControlledBy(rc.myRunners[k], ReplicaSet)
          /\ \A k \in 1 .. Len(pass.probes) : pass.probes[k].name \in Names
          /\ Deleted \subseteq Names
          /\ 0 <= rc.ready
          /\ rc.ready <= rc.available)
    /\ [][CountsRunners
          => /\ rc'.available = Cardinality({r \in Names : runners[r].present})
             /\ rc'.ready = Cardinality({r \in Names : /\ runners[r].present
                                                       /\ runners[r].phase = "Running"})]_vars
    /\ [][/\ runners'[OtherRunner] = runners[OtherRunner]
          /\ ghRunners'[OtherRunner] = ghRunners[OtherRunner]]_vars

\* With an idle runner of another replica set in the namespace, a pass counted
\* the two runners of its own and deleted one of them.
C33_Witness ==
    /\ runners[OtherRunner].present
    /\ ghRunners[OtherRunner].listed /\ ~ghRunners[OtherRunner].busy
    /\ rc.available = 2
    /\ Len(rc.notBusy) = 2
    /\ Len(pass.deleted) = 1

\* C34: a GetRegistrationToken call that fails returns an error and no token
\* it created, and leaves the cache and the pending cleanups as they were; an
\* entry of the cache is written only by a call whose API request returned
\* status 201 without error, and it is the token that call returns.
C34_FailedCallLeavesCache ==
    /\ [][(tok'.last # tok.last /\ tok'.last.served = "error")
          => /\ tok'.last.err # "nil"
             /\ tok'.last.token \in {NoToken, tok.regTokens[tok'.last.key]}
             /\ tok'.regTokens = tok.regTokens
             /\ tok'.cleanups = tok.cleanups]_vars
    /\ [][\A k \in AllTokenKeys :
            (tok'.regTokens[k] # tok.regTokens[k] /\ tok'.regTokens[k].ok)
            => /\ tok'.last.served = "api"
               /\ tok'.last.key = k
               /\ tok'.last.err = "nil"
               /\ tok'.last.status = 201
               /\ tok'.last.token = tok'.regTokens[k]]_vars
    /\ [](tok.last.served = "api" => tok.last.status = 201)

\* A request for a token to replace a cached one that is no longer fresh was
\* answered with status 500: the call failed and the cached token is still there.
C34_Witness ==
    /\ tok.last.served = "error"
    /\ tok.last.apiCalls = 1
    /\ tok.last.status = 500
    /\ tok.last.ok
    /\ tok.regTokens[tok.last.key] = [ok |-> TRUE, expiresAt |-> tok.last.cachedExpiresAt]

\* A step that runs one cleanup.
RunsCleanup == tok'.cleanups < tok.cleanups

\* C36: a cleanup removes the cached tokens whose expiry is before the current
\* time and no other, so none that GetRegistrationToken would serve from the
\* cache at that time.
C36_CleanupRemovesExactlyExpired ==
    [][RunsCleanup =>
         \A k \in AllTokenKeys :
           /\ tok'.regTokens[k] =
                IF tok.regTokens[k].ok /\ tok.regTokens[k].expiresAt < now
                THEN NoToken ELSE tok.regTokens[k]
           /\ ServedFromCache(tok.regTokens[k].ok, tok.regTokens[k].expiresAt, now)
              => tok'.regTokens[k] = tok.regTokens[k] /\ k \notin tok'.removed]_vars

\* A cleanup has removed an expired token and left a fresh one of another key.
C36_Witness ==
    /\ tok.removed # {}
    /\ \A k \in tok.removed : tok.regTokens[k] = NoToken
    /\ \E k \in AllTokenKeys :
         ServedFromCache(tok.regTokens[k].ok, tok.regTokens[k].expiresAt, now)

\* Every caller has returned and every cleanup that was started has run.
AllReturned ==
    /\ \A p \in Callers : conc.pc[p] = "done"
    /\ \A p \in Callers : conc.cleanup[p] \in {"none", "done"}

\* No API call failed and every token created expires more than
\* RunnerStartupTimeout minutes ahead.
OnlyFreshTokensCreated ==
    /\ \A p \in Callers : conc.err[p] = "nil"
    /\ \A t \in conc.created : t.expiresAt > now + RunnerStartupTimeout

\* C35: a caller reads and writes the map, and a cleanup walks it, only while
\* it holds the mutex; when the token created is fresh, concurrent calls for
\* one key on an empty cache make one API call between them and each returns
\* that token; and while a caller or a cleanup has not finished, one of them
\* can take a step.
C35_ConcurrentCallsShareOneToken ==
    /\ \A p \in Callers :
         /\ conc.pc[p] \in {"lookup", "create", "unlock"} => conc.mu = p
         /\ conc.cleanup[p] = "run" => conc.mu = CleanupOf(p)
    /\ OnlyFreshTokensCreated
       => /\ conc.apiCalls <= 1
          /\ \A p \in Callers :
               conc.pc[p] = "done"
               => conc.apiCalls = 1 /\ conc.got[p].ok /\ conc.created = {conc.got[p]}
    /\ ~AllReturned => ENABLED ConcNext

\* All callers have returned the one fresh token that one API call created, and
\* the cleanup that call started has run and left the token in the cache.
C35_Witness ==
    /\ AllReturned
    /\ OnlyFreshTokensCreated
    /\ conc.apiCalls = 1
    /\ \A p \in Callers : conc.got[p] = conc.regToken /\ conc.regToken.ok
    /\ \E p \in Callers : conc.cleanup[p] = "done"

\* C37: the RunnerDeleted events of a pass name, in order, the runners the
\* pass has deleted.
C37_EventNamesDeletedRunner ==
    /\ Len(pass.events) = Len(pass.deleted)
    /\ \A k \in 1 .. Len(pass.deleted) : pass.events[k] = pass.deleted[k]

\* C38: no pass both creates and deletes runners; a pass probes only when it
\* counted more runners than desired, and creates only when it counted fewer;
\* with as many as desired it creates none, deletes none and probes none.
C38_PassScalesOneWay ==
    /\ ~(pass.created > 0 /\ pass.deleted # <<>>)
    /\ pass.probes # <<>> => pass.available > pass.desired
    /\ pass.deleted # <<>> => pass.available > pass.desired
    /\ pass.created > 0 => pass.available < pass.desired
    /\ pass.available = pass.desired
       => pass.created = 0 /\ pass.deleted = <<>> /\ pass.probes = <<>>

\* A pass that counted as many runners as desired, an idle listed one among
\* them, has finished.
C38_Witness ==
    /\ pass.branch = "status"
    /\ pass.ended = "ok"
    /\ pass.available = pass.desired
    /\ pass.available > 0
    /\ \E r \in Names : runners[r].present /\ ghRunners[r].listed /\ ~ghRunners[r].busy

\* The replica set is gone or carries a DeletionTimestamp.
ReplicaSetGoneOrDeleting == ~rsMeta.found \/ rsMeta.deletionTimestamp

\* C39: a pass over a replica set that is gone or is being deleted ends at the
\* Get or at the DeletionTimestamp test: it lists, probes, creates and deletes
\* nothing, writes no status, and returns no requeue and no error, unless the
\* Get itself failed, whose error it returns.
C39_GoneOrDeletingReplicaSetIsLeftAlone ==
    /\ [][(rc.pc = "idle" /\ ReplicaSetGoneOrDeleting /\ <<rc, pass, result>>' # <<rc, pass, result>>)
          => /\ rc' = IdleRc
             /\ pass'.branch \in {"get", "deleting"}
             /\ pass'.probes = <<>> /\ pass'.deleted = <<>> /\ pass'.created = 0
             /\ pass'.statusWrites = 0 /\ pass'.events = <<>>
             /\ result'.requeueAfter = NoRequeue
             /\ result'.err \in {"nil", "GetError"}
             /\ result'.err = "nil" <=> pass'.ended = "returned"
             /\ <<runners, ghRunners, rsStatus>>' = <<runners, ghRunners, rsStatus>>]_vars
    /\ [](ReplicaSetGoneOrDeleting /\ pass.branch = "deleting" => result = OkResult)
    /\ [](ReplicaSetGoneOrDeleting => rc.pc = "idle")

\* A pass has returned at once, without error, for a replica set that is gone
\* while a runner of it is still in the cluster and none is desired.
C39_Witness ==
    /\ ~rsMeta.found
    /\ pass.branch = "get"
    /\ pass.ended = "returned"
    /\ result = OkResult
    /\ specReplicas = 0
    /\ \E r \in Names : runners[r].present

\* One step of runAndNotify.
LoopStep ==
    \/ MlPoll
    \/ MlDeleteMessage
    \/ MlDispatch
    \/ MlHandlerReturn
    \/ MlRefreshAdmin
    \/ MlRefreshSession

\* C40: no step of the loop changes the notify channel, and whatever the
\* channel is, nil, unread, full or closed, the loop can take its next step
\* until it has returned.
C40_LoopLeavesNotifyAlone ==
    /\ [][notify' = notify]_vars
    /\ [](ml.pc \notin {"stopped", "panicked"} => ENABLED LoopStep)

\* With a full channel nobody reads, the loop has dispatched two messages and
\* is back at its top.
C40_Witness ==
    /\ ~notify.nil
    /\ notify.len = notify.cap
    /\ notify.cap > 0
    /\ Len(mlHist.dispatches) = 2
    /\ ml.pc = "top"

====
